---------------------------- MODULE Spec2Model ----------------------------
(***************************************************************************)
(* quiC2: a command-and-control signalling layer over QUIC.                *)
(*                                                                         *)
(* The model covers the Action registry (tools/constants.py,               *)
(* tools/shared_functionality.py), the sqlite-backed client registry and   *)
(* mailbox store (c2_dealer.py QuiC2Database), the operator console that   *)
(* fills the mailbox (c2_dealer.py __main__) and the server's event        *)
(* handler (c2_server.py, server/server_comms.py).                         *)
(*                                                                         *)
(* Text (a Python str) is a sequence of one-character strings, so that     *)
(* str(), int() and indexing are computed and not assumed.                 *)
(***************************************************************************)
EXTENDS Integers, Sequences, FiniteSets, TLC

(***************************************************************************)
(* Bounds of the model.                                                    *)
(***************************************************************************)
\* Total number of rows held by the three mailbox tables together.
MaxRows == 3
\* Latest clock value (seconds since the start of the run).
MaxTime == 122
\* Number of commands the operator enqueues in the interleaved runs.
MaxEnq == 3
\* Number of mailbox rows queued at one time while the system runs.
MaxQueued == 2
\* Number of bytes the server's file 'temp' holds at most.
MaxTemp == 1

(***************************************************************************)
(* Program constants.                                                      *)
(***************************************************************************)
DEFAULT_MAX_DATA == 1048576
MAX_BYTES == 1230
DELIMITER == <<"*", "*", "*">>
\* The age, in seconds, beyond which clean_stagnant means to evict.
STALE_SECONDS == 60

(***************************************************************************)
(* Text helpers: Python's str(int), int(str), str.strip and str[i].        *)
(***************************************************************************)
Digits == <<"0", "1", "2", "3", "4", "5", "6", "7", "8", "9">>

IsDigit(c) == \E d \in 1..10 : Digits[d] = c

DigitVal(c) == (CHOOSE d \in 1..10 : Digits[d] = c) - 1

RECURSIVE NatStr(_)
NatStr(n) == IF n < 10 THEN <<Digits[n + 1]>>
             ELSE Append(NatStr(n \div 10), Digits[(n % 10) + 1])

\* str(n) of a Python int.
Str(n) == IF n < 0 THEN <<"-">> \o NatStr(0 - n) ELSE NatStr(n)

IsSpace(c) == c \in {" ", "\t", "\n"}

RECURSIVE LStrip(_)
LStrip(s) == IF s # <<>> /\ IsSpace(Head(s)) THEN LStrip(Tail(s)) ELSE s

RECURSIVE RStrip(_)
RStrip(s) == IF s # <<>> /\ IsSpace(s[Len(s)])
             THEN RStrip(SubSeq(s, 1, Len(s) - 1)) ELSE s

\* str.strip()
Strip(s) == RStrip(LStrip(s))

RECURSIVE DigitsVal(_)
DigitsVal(s) == IF s = <<>> THEN 0
                ELSE IF s[Len(s)] = "_" THEN DigitsVal(SubSeq(s, 1, Len(s) - 1))
                ELSE 10 * DigitsVal(SubSeq(s, 1, Len(s) - 1)) + DigitVal(s[Len(s)])

\* The literal int() accepts after the sign: digits, single underscores
\* between them.
IsIntBody(b) ==
    /\ b # <<>>
    /\ IsDigit(b[1])
    /\ IsDigit(b[Len(b)])
    /\ \A i \in 1..Len(b) : IsDigit(b[i]) \/ b[i] = "_"
    /\ \A i \in 1..(Len(b) - 1) : ~(b[i] = "_" /\ b[i + 1] = "_")

\* int(s) of a Python str: [ok |-> TRUE, val |-> n], or ok = FALSE for
\* ValueError.
PyInt(s) ==
    LET t == Strip(s)
        signed == t # <<>> /\ Head(t) \in {"+", "-"}
        body == IF signed THEN Tail(t) ELSE t
    IN  IF IsIntBody(body)
        THEN [ok |-> TRUE,
              val |-> IF signed /\ Head(t) = "-"
                      THEN 0 - DigitsVal(body) ELSE DigitsVal(body)]
        ELSE [ok |-> FALSE, val |-> 0]

(***************************************************************************)
(* Action registry: tools/constants.py Actions, in declaration order.      *)
(* cat is the block of the declaration the member stands in.               *)
(***************************************************************************)
Actions_dup ==
    << [name |-> "CUSTOM", value |-> 1153433, cat |-> "custom"],
       [name |-> "WHOAMI", value |-> 2097152, cat |-> "stock"],
       [name |-> "HOSTNAME", value |-> 2202009, cat |-> "stock"],
       [name |-> "PWD", value |-> 2306867, cat |-> "stock"],
       [name |-> "LS", value |-> 2411724, cat |-> "stock"],
       [name |-> "IPCONFIG", value |-> 2516582, cat |-> "stock"],
       [name |-> "NOT_A_VALID_INTEGER", value |-> 9437184, cat |-> "status"],
       [name |-> "NO_RESPONSE_NEEDED", value |-> 9542041, cat |-> "status"],
       [name |-> "FILE_NOT_FOUND", value |-> 9646899, cat |-> "status"],
       [name |-> "CLIENT_HELLO", value |-> 10485760, cat |-> "client"],
       [name |-> "CLIENT_RESPONSE", value |-> 10590617, cat |-> "client"],
       [name |-> "CLIENT_FAIL", value |-> 10695475, cat |-> "client"],
       [name |-> "CLIENT_KILL", value |-> 9600332, cat |-> "client"],
       [name |-> "CLIENT_FILE_SEND", value |-> 10905190, cat |-> "client"],
       [name |-> "SERVER_SEES_HELLO", value |-> 11534336, cat |-> "server"],
       [name |-> "SERVER_SEES_RESPONSE", value |-> 11639193, cat |-> "server"],
       [name |-> "SERVER_FILE_SEND", value |-> 11744051, cat |-> "server"],
       [name |-> "SERVER_FILE_RECV", value |-> 11848908, cat |-> "server"] >>

Actions ==
    << [name |-> "CUSTOM", value |-> 1153433, cat |-> "custom"],
       [name |-> "WHOAMI", value |-> 2097152, cat |-> "stock"],
       [name |-> "HOSTNAME", value |-> 2202009, cat |-> "stock"],
       [name |-> "PWD", value |-> 2306867, cat |-> "stock"],
       [name |-> "LS", value |-> 2411724, cat |-> "stock"],
       [name |-> "IPCONFIG", value |-> 2516582, cat |-> "stock"],
       [name |-> "NOT_A_VALID_INTEGER", value |-> 9437184, cat |-> "status"],
       [name |-> "NO_RESPONSE_NEEDED", value |-> 9542041, cat |-> "status"],
       [name |-> "FILE_NOT_FOUND", value |-> 9646899, cat |-> "status"],
       [name |-> "CLIENT_HELLO", value |-> 10485760, cat |-> "client"],
       [name |-> "CLIENT_RESPONSE", value |-> 10590617, cat |-> "client"],
       [name |-> "CLIENT_FAIL", value |-> 10695475, cat |-> "client"],
       [name |-> "CLIENT_KILL", value |-> 10800332, cat |-> "client"],
       [name |-> "CLIENT_FILE_SEND", value |-> 10905190, cat |-> "client"],
       [name |-> "SERVER_SEES_HELLO", value |-> 11534336, cat |-> "server"],
       [name |-> "SERVER_SEES_RESPONSE", value |-> 11639193, cat |-> "server"],
       [name |-> "SERVER_FILE_SEND", value |-> 11744051, cat |-> "server"],
       [name |-> "SERVER_FILE_RECV", value |-> 11848908, cat |-> "server"] >>

Members == {Actions[i].name : i \in 1..Len(Actions)}

Categories == <<"custom", "stock", "status", "client", "server">>

\* item.value of the member called name (the first one declared under it).
ValueOf(name) ==
    Actions[CHOOSE i \in 1..Len(Actions) :
                /\ Actions[i].name = name
                /\ \A j \in 1..(i - 1) : Actions[j].name # name].value

\* int_to_enum with no fallback: a lookup that raises when nothing matches.
int_to_enum_raise(input) ==
    IF \E i \in 1..Len(Actions) : Actions[i].value = input
    THEN Actions[CHOOSE i \in 1..Len(Actions) :
                     /\ Actions[i].value = input
                     /\ \A j \in 1..(i - 1) : Actions[j].value # input].name
    ELSE "raise ValueError"

\* int_to_enum: the first member, in declaration order, whose value is the
\* input; NOT_A_VALID_INTEGER when the loop ends without a match.
int_to_enum(input) ==
    IF \E i \in 1..Len(Actions) : Actions[i].value = input
    THEN Actions[CHOOSE i \in 1..Len(Actions) :
                     /\ Actions[i].value = input
                     /\ \A j \in 1..(i - 1) : Actions[j].value # input].name
    ELSE "NOT_A_VALID_INTEGER"


(***************************************************************************)
(* Inputs of the model.                                                    *)
(***************************************************************************)
\* Client identifiers (stream ids): multiples of 4 drawn by
\* randrange(0, MAX_VLIE_INT, 4), one of one decimal digit and one of two.
Ids == {4, 12}

\* Command texts the operator can enqueue: a stock code (LS), free-form
\* text, a number that is no signal code, and the code of CLIENT_KILL.
Cmds == {Str(2411724), <<"l", "s">>, <<"7">>, Str(10800332)}

\* Filenames the operator can enqueue for a server-to-client send: the
\* console opens the file first, so the name is never empty.
SendNames == {<<"a">>, <<"b">>}

\* Filenames the operator can enqueue for a client-to-server send: the
\* console strips the input and stores it unchecked, the empty name too.
RecvNames == {<<>>, <<"a">>, <<"b">>}

\* The names the operator types while the system runs.
DealerSendNames == {<<"a">>}

DealerRecvNames == {<<>>, <<"a">>}

\* Values the server's inbound signal field can hold when stream data
\* arrives on an open connection: the client's signals, a decodable code
\* the server has no case for, and values that are no member's (the default
\* of the field among them).
InboundSignals ==
    {10590617, 10905190, 9646899, 10695475, DEFAULT_MAX_DATA, 7}

\* Stream data a client sends: nothing, or the bytes of a short text.
InboundData == {<<>>, <<"o">>}

\* reason_phrase of a ConnectionTerminated event: the client's kill path,
\* or an ordinary close.
Reasons == {"terminate", ""}

\* A byte that is no UTF-8 text on its own.
BadByte == "xFF"

\* The stream id the client process drew at its start.
ClientId == 12

\* Values the client's inbound signal field can hold when an event arrives:
\* CUSTOM, two stock codes (LS, IPCONFIG), status codes, a client code, the
\* kill, the server codes, the field's default and another undecodable
\* value.
ClientSignals ==
    {1153433, 2411724, 2516582, 9437184, 9542041, 9646899, 10485760,
     10800332, 11534336, 11744051, 11848908, DEFAULT_MAX_DATA, 7}

\* Stream data the client receives: the payload of a stock command, one
\* and two free-form commands, filenames (a: a short file, b: a file longer
\* than one message), one byte of a file, and a byte that does not decode.
ClientPayloads ==
    {DELIMITER, <<"l", "s">> \o DELIMITER,
     <<"l", "s">> \o DELIMITER \o <<"i", "d">> \o DELIMITER,
     <<"a">> \o DELIMITER, <<"b">> \o DELIMITER, <<"x">>, <<BadByte>>}

\* A machine on which everything succeeds.
DefaultEnv == [os |-> "Linux", exit |-> 0, file |-> "present"]

\* The events the client is given, each with what its machine answers
\* while it is handled.  Only what the case of the handler reads is varied:
\* the kill check reads nothing, SERVER_FILE_SEND the data, SERVER_FILE_RECV
\* the data and the outcome of open, CUSTOM the data and the exit status,
\* every other signal the platform and the exit status (and the data only
\* to decode it).
ClientInputs ==
    {[signal |-> 10800332, data |-> DELIMITER, env |-> DefaultEnv]}
    \cup {[signal |-> 11744051, data |-> d, env |-> DefaultEnv] :
              d \in ClientPayloads}
    \cup {[signal |-> 11848908, data |-> d,
           env |-> [DefaultEnv EXCEPT !.file = f]] :
              d \in ClientPayloads, f \in {"present", "absent", "denied"}}
    \cup {[signal |-> 1153433, data |-> d,
           env |-> [DefaultEnv EXCEPT !.exit = e]] :
              d \in ClientPayloads, e \in {0, 1}}
    \cup {[signal |-> v, data |-> d,
           env |-> [DefaultEnv EXCEPT !.os = o, !.exit = e]] :
              v \in ClientSignals \ {10800332, 11744051, 11848908, 1153433},
              d \in {DELIMITER, <<BadByte>>},
              o \in {"Windows", "Linux", "Darwin"}, e \in {0, 1}}

\* Seconds by which the clock advances in one step.
TickSteps == {59, 60, 61}

(***************************************************************************)
(* Sequence helpers.                                                       *)
(***************************************************************************)
RECURSIVE Filter(_, _, _)
\* The rows of tbl whose stream_id is sid (keep = TRUE) or is not.
Filter(tbl, sid, keep) ==
    IF tbl = <<>> THEN <<>>
    ELSE LET rest == Filter(Tail(tbl), sid, keep)
         IN  IF (Head(tbl).stream_id = sid) = keep
             THEN <<Head(tbl)>> \o rest ELSE rest

RowsOf(tbl, stream_id) == Filter(tbl, Str(stream_id), TRUE)

RowsNotOf(tbl, stream_id) == Filter(tbl, Str(stream_id), FALSE)

CmdsIn(rows) == [i \in 1..Len(rows) |-> rows[i].cmd]

NamesIn(rows) == [i \in 1..Len(rows) |-> rows[i].filename]

(***************************************************************************)
(* QuiC2Database (c2_dealer.py).  A table is the sequence of its rows in   *)
(* rowid order, which is the order a select without ORDER BY walks it.     *)
(* stream_id is stored as str(stream_id).                                  *)
(***************************************************************************)
\* select * from alive_clients; row[0] of every row.
sel_all_alive(alive) == [i \in 1..Len(alive) |-> alive[i].stream_id]

\* A register that does not look at clients.
insert_after_select_blind(alive, clients, stream_id, t) ==
    [alive |-> Append(alive, [stream_id |-> Str(stream_id), time |-> t]),
     ret |-> TRUE]

\* insert_new_stream_id after its sel_all_alive returned clients: the loop
\* over clients, then the insert into alive, the table as it is by then.
insert_after_select(alive, clients, stream_id, t) ==
    IF \E i \in 1..Len(clients) : stream_id = PyInt(clients[i]).val
    THEN [alive |-> alive, ret |-> FALSE]
    ELSE [alive |-> Append(alive, [stream_id |-> Str(stream_id), time |-> t]),
          ret |-> TRUE]

\* A register that refreshes the time of a record it finds.
insert_new_stream_id_refresh(alive, stream_id, t) ==
    LET clients == sel_all_alive(alive)
    IN  IF \E i \in 1..Len(clients) : stream_id = PyInt(clients[i]).val
        THEN [alive |-> [i \in 1..Len(alive) |->
                            IF alive[i].stream_id = Str(stream_id)
                            THEN [alive[i] EXCEPT !.time = t] ELSE alive[i]],
              ret |-> FALSE]
        ELSE [alive |-> Append(alive, [stream_id |-> Str(stream_id), time |-> t]),
              ret |-> TRUE]

\* insert_new_stream_id with nothing between its select and its insert.
insert_new_stream_id(alive, stream_id, t) ==
    insert_after_select(alive, sel_all_alive(alive), stream_id, t)

insert_new_cmd(pool, stream_id, cmd) ==
    Append(pool, [stream_id |-> Str(stream_id), cmd |-> cmd])

insert_new_file_send(tbl, stream_id, filename) ==
    Append(tbl, [stream_id |-> Str(stream_id), filename |-> filename])

insert_new_file_recv(tbl, stream_id, filename) ==
    Append(tbl, [stream_id |-> Str(stream_id), filename |-> filename])

\* A take whose delete has lost its where clause.
sel_and_del_cmd_all(pool, stream_id) ==
    [list |-> CmdsIn(RowsOf(pool, stream_id)), pool |-> <<>>]

\* The select collects row[1] of every row of stream_id; the delete removes
\* every row of stream_id.
sel_and_del_cmd(pool, stream_id) ==
    [list |-> CmdsIn(RowsOf(pool, stream_id)),
     pool |-> RowsNotOf(pool, stream_id)]

\* The select keeps row[1] of the first row of stream_id ('' when there is
\* none); the delete removes every row of stream_id.
\* The select without the delete.
sel_and_del_file_send_keep(tbl, stream_id) ==
    LET rows == RowsOf(tbl, stream_id)
    IN  [filename |-> IF rows = <<>> THEN <<>> ELSE rows[1].filename,
         tbl |-> tbl]

sel_and_del_file_send(tbl, stream_id) ==
    LET rows == RowsOf(tbl, stream_id)
    IN  [filename |-> IF rows = <<>> THEN <<>> ELSE rows[1].filename,
         tbl |-> RowsNotOf(tbl, stream_id)]

sel_and_del_file_recv(tbl, stream_id) ==
    LET rows == RowsOf(tbl, stream_id)
    IN  [filename |-> IF rows = <<>> THEN <<>> ELSE rows[1].filename,
         tbl |-> RowsNotOf(tbl, stream_id)]

\* The delete raises nothing when no row matches: the result is True.
del_stream_id(alive, stream_id) ==
    [alive |-> RowsNotOf(alive, stream_id), ret |-> TRUE]

\* client[i] of a str: the character, or IndexError.
PyIndex(s, i) ==
    IF i < Len(s) THEN [ok |-> TRUE, val |-> s[i + 1]]
    ELSE [ok |-> FALSE, val |-> ""]

\* A sweep that reads the time of each record: the records older than
\* STALE_SECONDS are deleted and their ids returned.
clean_stagnant_by_time(alive, t) ==
    [alive |-> SelectSeq(alive, LAMBDA r : ~(t - r.time > STALE_SECONDS)),
     removed |-> sel_all_alive(
                     SelectSeq(alive, LAMBDA r : t - r.time > STALE_SECONDS)),
     clean |-> alive # <<>>, exc |-> "none"]

\* clean_stagnant: clients holds row[0] of every record, a str, so for the
\* first client client[1] is the second character of the id (IndexError for
\* a one-digit id) and time.time() - client[1] is float - str (TypeError).
\* Nothing is appended to removed and nothing is deleted before the raise.
clean_stagnant(alive, t) ==
    LET clients == sel_all_alive(alive)
    IN  IF clients = <<>>
        THEN [alive |-> alive, removed |-> <<>>, clean |-> FALSE, exc |-> "none"]
        ELSE [alive |-> alive, removed |-> <<>>, clean |-> FALSE,
              exc |-> IF PyIndex(clients[1], 1).ok
                      THEN "TypeError" ELSE "IndexError"]

(***************************************************************************)
(* The server (server/server_comms.py, c2_server.py).  db is the record of *)
(* the four tables; a message is the signal the connection's outbound      *)
(* field held when send_stream_data was called, and the bytes handed to    *)
(* it.  Text is ASCII, so encode() keeps the characters.                   *)
(***************************************************************************)
\* Files the server can read, and their bytes.
FileData(filename) ==
    IF filename = <<"a">> THEN <<1, 2, 3>> ELSE <<4>>

RECURSIVE Chunks(_, _)
\* f.read(m) until it returns nothing.
Chunks(data, m) ==
    IF data = <<>> THEN <<>>
    ELSE IF Len(data) <= m THEN <<data>>
    ELSE <<SubSeq(data, 1, m)>> \o Chunks(SubSeq(data, m + 1, Len(data)), m)

Msg(signal, data) == [signal |-> signal, data |-> data]

\* The takes as respond_to_sdr gets them from the database db, in which
\* db.err holds the tables whose statements raise sqlite3.OperationalError
\* while this event is handled: the except branch returns the empty result
\* with error = True and the table is as it was.  respond_to_sdr tests
\* 'not error and result', which an empty result fails by itself.
take_cmd(db, stream_id) ==
    IF "cmds" \in db.err THEN [list |-> <<>>, pool |-> db.cmds]
    ELSE sel_and_del_cmd(db.cmds, stream_id)

take_file_send(db, stream_id) ==
    IF "send" \in db.err THEN [filename |-> <<>>, tbl |-> db.send]
    ELSE sel_and_del_file_send(db.send, stream_id)

take_file_recv(db, stream_id) ==
    IF "recv" \in db.err THEN [filename |-> <<>>, tbl |-> db.recv]
    ELSE sel_and_del_file_recv(db.recv, stream_id)

\* respond_to_sdr, third take: the inbound file request.
respond_file_recv(db, fr) ==
    IF fr.filename # <<>>
    THEN [resp |-> "SERVER_FILE_RECV", items |-> <<fr.filename>>,
          db |-> [db EXCEPT !.recv = fr.tbl]]
    ELSE [resp |-> "NO_RESPONSE_NEEDED", items |-> <<>>,
          db |-> [db EXCEPT !.recv = fr.tbl]]

\* respond_to_sdr, second take: the outbound file.
respond_file_send(db, fs, stream_id) ==
    IF fs.filename # <<>>
    THEN [resp |-> "SERVER_FILE_SEND", items |-> <<fs.filename>>,
          db |-> [db EXCEPT !.send = fs.tbl]]
    ELSE respond_file_recv([db EXCEPT !.send = fs.tbl],
                           take_file_recv(db, stream_id))

\* respond_to_sdr, first take: the commands.
respond_cmds(db, c, stream_id) ==
    IF c.list # <<>>
    THEN [resp |-> "SERVER_SEES_HELLO", items |-> c.list,
          db |-> [db EXCEPT !.cmds = c.pool]]
    ELSE respond_file_send([db EXCEPT !.cmds = c.pool],
                           take_file_send(db, stream_id),
                           stream_id)

\* A match whose every case takes the client's queues.
respond_match_hello(db, stream_id, value) ==
    respond_cmds(db, take_cmd(db, stream_id), stream_id)

\* respond_to_sdr after the registration: the match on the signal.  On
\* CLIENT_HELLO the three takes run in order until one yields something.
respond_match(db, stream_id, value) ==
    IF value = "CLIENT_HELLO"
    THEN respond_cmds(db, take_cmd(db, stream_id), stream_id)
    ELSE IF value = "CLIENT_RESPONSE"
    THEN [resp |-> "SERVER_SEES_RESPONSE", items |-> <<>>, db |-> db]
    ELSE IF value = "FILE_NOT_FOUND"
    THEN [resp |-> "FILE_NOT_FOUND", items |-> <<>>, db |-> db]
    ELSE [resp |-> "NOT_A_VALID_INTEGER", items |-> <<>>, db |-> db]

\* respond_to_sdr: the id is registered whatever the signal is.
respond_to_sdr(db, stream_id, value, t) ==
    respond_match([db EXCEPT !.alive =
                       insert_new_stream_id(@, stream_id, t).alive],
                  stream_id, value)

RECURSIVE Dispatch(_, _, _)
\* The loop over the items of a batch: int(cmd) raising ValueError sends the
\* text under CUSTOM; a number that int_to_enum does not know raises
\* TypeError, which is logged and sends nothing; any other number is sent
\* under the member it decodes to.
Dispatch(items, lmd, sent) ==
    IF items = <<>> THEN [lmd |-> lmd, sent |-> sent]
    ELSE LET cmd == Head(items)
             int_cmd == PyInt(cmd)
             send == int_to_enum(int_cmd.val)
         IN  IF ~int_cmd.ok
             THEN Dispatch(Tail(items), ValueOf("CUSTOM"),
                           Append(sent, Msg(ValueOf("CUSTOM"), cmd \o DELIMITER)))
             ELSE IF send = "NOT_A_VALID_INTEGER"
             THEN Dispatch(Tail(items), lmd, sent)
             ELSE Dispatch(Tail(items), ValueOf(send),
                           Append(sent, Msg(ValueOf(send), DELIMITER)))

\* f.read(MAX_BYTES) in a loop, each chunk sent as it is read.
send_chunks(signal, chunks) ==
    [i \in 1..Len(chunks) |-> Msg(signal, chunks[i])]

\* quic_event_received after respond_to_sdr returned r: the match on the
\* response.  got is the handler's result so far.
respond_dispatch(got, r, lmd, fopen) ==
    IF r.resp \in {"SERVER_SEES_RESPONSE", "NO_RESPONSE_NEEDED"}
    THEN got
    ELSE IF r.resp = "SERVER_FILE_SEND"
    THEN IF fopen
         THEN [got EXCEPT
                  !.lmd = ValueOf(r.resp),
                  !.sent = send_chunks(ValueOf(r.resp),
                                       Chunks(FileData(r.items[1]), MAX_BYTES))]
         ELSE [got EXCEPT !.lmd = ValueOf(r.resp),
                          !.exc = "FileNotFoundError"]
    ELSE IF r.resp = "SERVER_FILE_RECV"
    THEN [got EXCEPT
             !.lmd = ValueOf(r.resp),
             !.sent = <<Msg(ValueOf(r.resp), r.items[1] \o DELIMITER)>>,
             !.rmd = DEFAULT_MAX_DATA]
    ELSE [got EXCEPT !.lmd = Dispatch(r.items, lmd, <<>>).lmd,
                     !.sent = Dispatch(r.items, lmd, <<>>).sent]

\* The handler's result when respond_to_sdr returned r.
responded(base, r, lmd, fopen) ==
    respond_dispatch([base EXCEPT !.db = r.db, !.resp = r.resp,
                                  !.items = r.items],
                     r, lmd, fopen)

\* The undecodable case without the reset of the inbound field.
decoded_keep(base, info, db, lmd, temp, stream_id, data, t, fopen) ==
    IF info = "NOT_A_VALID_INTEGER"
    THEN [base EXCEPT !.lmd = ValueOf("CLIENT_KILL"),
                      !.sent = <<Msg(ValueOf("CLIENT_KILL"), <<>>)>>]
    ELSE IF info = "CLIENT_FILE_SEND"
    THEN [base EXCEPT !.temp = temp \o data]
    ELSE responded(base, respond_to_sdr(db, stream_id, info, t), lmd, fopen)

\* The match on the decoded inbound signal info.
decoded(base, info, db, lmd, temp, stream_id, data, t, fopen) ==
    IF info = "NOT_A_VALID_INTEGER"
    THEN [base EXCEPT !.rmd = DEFAULT_MAX_DATA,
                      !.lmd = ValueOf("CLIENT_KILL"),
                      !.sent = <<Msg(ValueOf("CLIENT_KILL"), <<>>)>>]
    ELSE IF info = "CLIENT_FILE_SEND"
    THEN [base EXCEPT !.temp = temp \o data]
    ELSE responded(base, respond_to_sdr(db, stream_id, info, t), lmd, fopen)

\* QuicServerProtocol.quic_event_received for StreamDataReceived(stream_id,
\* data), on a connection whose fields are rmd (inbound signal) and lmd
\* (outbound signal); temp is the content of the file 'temp', fopen whether
\* open(filename, 'rb') succeeds.
quic_event_received(db, rmd, lmd, temp, stream_id, data, t, fopen) ==
    decoded([db |-> db, rmd |-> rmd, lmd |-> lmd, temp |-> temp,
             resp |-> "none", items |-> <<>>, sent |-> <<>>, exc |-> "none"],
            int_to_enum(rmd), db, lmd, temp, stream_id, data, t, fopen)

(***************************************************************************)
(* The client (c2_client.py, client/cl_functions.py).  env is what the     *)
(* client's machine answers while one event is handled: env.os is          *)
(* platform.system(), env.exit the exit status of the processes started,   *)
(* env.file whether open(filename, 'rb') finds the file.                   *)
(***************************************************************************)
StartsWith(s, p) == Len(s) >= Len(p) /\ SubSeq(s, 1, Len(p)) = p

RECURSIVE SplitFrom(_, _, _)
\* str.split(sep), cur being the piece read so far.
SplitFrom(s, sep, cur) ==
    IF s = <<>> THEN <<cur>>
    ELSE IF StartsWith(s, sep)
    THEN <<cur>> \o SplitFrom(SubSeq(s, Len(sep) + 1, Len(s)), sep, <<>>)
    ELSE SplitFrom(Tail(s), sep, Append(cur, Head(s)))

Split(s, sep) == SplitFrom(s, sep, <<>>)

RECURSIVE StripItems(_)
\* [x.strip() for x in sd_list if x]
StripItems(sd_list) ==
    IF sd_list = <<>> THEN <<>>
    ELSE IF Head(sd_list) = <<>> THEN StripItems(Tail(sd_list))
    ELSE <<Strip(Head(sd_list))>> \o StripItems(Tail(sd_list))

\* event.data.decode('utf-8') raises UnicodeDecodeError on such a byte.
CanDecode(data) == \A i \in 1..Len(data) : data[i] # BadByte

\* event.data.decode('utf-8').strip().split(DELIMITER), stripped of the
\* empty pieces.
ServerData(data) == StripItems(Split(Strip(data), DELIMITER))

\* s[a:b] of Python, 0 <= a <= b.
PySlice(s, a, b) == SubSeq(s, a + 1, IF b < Len(s) THEN b ELSE Len(s))

\* What a process prints: stdout when it exits with 0, stderr otherwise.
Stdout(line) == <<"$">> \o line

Stderr(line) == <<"!">> \o line

\* str(e.stderr).encode()
BytesRepr(b) == <<"b", "'">> \o b \o <<"'">>

\* The command line of a stock command: the member's name in lower case,
\* 'ip a' for ipconfig on Linux.
StockLine(name, os) ==
    IF name = "IPCONFIG" /\ os = "Linux" THEN <<"ip a">> ELSE <<name>>

\* stock_command: NotImplementedError for ipconfig on another platform;
\* subprocess.run(check=True) raises CalledProcessError on a non-zero exit
\* and nothing catches it.
stock_command(name, env) ==
    IF name = "IPCONFIG" /\ env.os \notin {"Windows", "Linux"}
    THEN [out |-> <<>>, exc |-> "NotImplementedError", ran |-> <<>>]
    ELSE IF env.exit # 0
    THEN [out |-> <<>>, exc |-> "CalledProcessError",
          ran |-> <<[kind |-> "stock", line |-> StockLine(name, env.os)]>>]
    ELSE [out |-> Stdout(StockLine(name, env.os)), exc |-> "none",
          ran |-> <<[kind |-> "stock", line |-> StockLine(name, env.os)]>>]

\* custom_command: CalledProcessError is caught and the error text returned.
custom_command(cmd, env) ==
    [out |-> IF env.exit # 0 THEN BytesRepr(Stderr(cmd)) ELSE Stdout(cmd),
     exc |-> "none",
     ran |-> <<[kind |-> "custom", line |-> cmd]>>]

RECURSIVE SliceLoop_skip(_, _, _)
\* A do-while that steps one past the slice it sent.
SliceLoop_skip(response, i, m) ==
    <<PySlice(response, i, i + m)>>
        \o (IF i + m + 1 > Len(response) THEN <<>>
            ELSE SliceLoop_skip(response, i + m + 1, m))

RECURSIVE SliceLoop(_, _, _)
\* The do-while of the response: send response[i:i + m], add m to i, stop
\* when i > len(response).
SliceLoop(response, i, m) ==
    <<PySlice(response, i, i + m)>>
        \o (IF i + m > Len(response) THEN <<>>
            ELSE SliceLoop(response, i + m, m))

\* The files on the client's machine and their bytes: b is one byte longer
\* than a message holds.
ClientFileData(filename) ==
    IF filename = <<"b">> THEN [i \in 1..(MAX_BYTES + 1) |-> i % 7]
    ELSE <<1, 2, 3>>

RECURSIVE send_responses(_, _)
\* for response in responses: the slices of each, in order, each under
\* CLIENT_RESPONSE.
send_responses(responses, m) ==
    IF responses = <<>> THEN <<>>
    ELSE send_chunks(ValueOf("CLIENT_RESPONSE"),
                     SliceLoop(Head(responses), 0, m))
             \o send_responses(Tail(responses), m)

\* The sending of the responses gathered; res is the handler's result so
\* far, ran the processes started.
client_respond(res, responses, ran) ==
    [res EXCEPT !.ran = ran,
                !.lmd = IF responses = <<>> THEN @
                        ELSE ValueOf("CLIENT_RESPONSE"),
                !.sent = send_responses(responses, MAX_BYTES)]

\* responses = [stock_command(info)]: an exception leaves the handler.
client_stock(res, r) ==
    IF r.exc # "none" THEN [res EXCEPT !.exc = r.exc, !.ran = r.ran]
    ELSE client_respond(res, <<r.out>>, r.ran)

\* The CUSTOM case: every item is run, then the responses are sent.
client_custom(res, server_data, env) ==
    client_respond(
        res,
        [i \in 1..Len(server_data) |-> custom_command(server_data[i], env).out],
        [i \in 1..Len(server_data) |-> custom_command(server_data[i], env).ran[1]])

\* A SERVER_FILE_RECV case without the except clause: the return in the
\* finally clause drops FileNotFoundError too.
client_file_recv_silent(res, server_data, env) ==
    IF server_data = <<>> THEN [res EXCEPT !.exc = "IndexError"]
    ELSE IF env.file \in {"absent", "denied"} THEN res
    ELSE [res EXCEPT
             !.lmd = ValueOf("CLIENT_FILE_SEND"),
             !.sent = send_chunks(ValueOf("CLIENT_FILE_SEND"),
                                  Chunks(ClientFileData(server_data[1]),
                                         MAX_BYTES))]

\* The SERVER_FILE_RECV case: server_data[0] raises IndexError on an empty
\* list; FileNotFoundError is answered FILE_NOT_FOUND; the return in the
\* finally clause drops every other error of open.
client_file_recv(res, server_data, env) ==
    IF server_data = <<>> THEN [res EXCEPT !.exc = "IndexError"]
    ELSE IF env.file = "absent"
    THEN [res EXCEPT !.lmd = ValueOf("FILE_NOT_FOUND"),
                     !.sent = <<Msg(ValueOf("FILE_NOT_FOUND"),
                                    <<"e", "r", "r", "o", "r">>)>>]
    ELSE IF env.file = "denied" THEN res
    ELSE [res EXCEPT
             !.lmd = ValueOf("CLIENT_FILE_SEND"),
             !.sent = send_chunks(ValueOf("CLIENT_FILE_SEND"),
                                  Chunks(ClientFileData(server_data[1]),
                                         MAX_BYTES))]

\* The match on the decoded signal info of a StreamDataReceived event.
client_decoded(res, info, data, env) ==
    IF info = "SERVER_FILE_SEND" THEN [res EXCEPT !.temp = @ \o data]
    ELSE IF ~CanDecode(data) THEN [res EXCEPT !.exc = "UnicodeDecodeError"]
    ELSE IF info = "SERVER_FILE_RECV"
    THEN client_file_recv(res, ServerData(data), env)
    ELSE IF info = "CUSTOM" THEN client_custom(res, ServerData(data), env)
    ELSE client_stock(res, stock_command(info, env))

\* A handler without the kill check.
client_event_received_unchecked(res, rmd, is_stream, data, env) ==
    IF ~is_stream THEN res
    ELSE client_decoded(res, int_to_enum(rmd), data, env)

\* QuicClientProtocol.quic_event_received: rmd is the inbound signal field,
\* lmd the outbound one, temp the content of the client's file 'temp',
\* is_stream whether the event is a StreamDataReceived.  The kill check
\* comes first, for every event.
client_event_received(res, rmd, is_stream, data, env) ==
    IF rmd = ValueOf("CLIENT_KILL")
    THEN [res EXCEPT !.exc = "KeyboardInterrupt"]
    ELSE IF ~is_stream THEN res
    ELSE client_decoded(res, int_to_enum(rmd), data, env)

\* A main loop that ends on any exception of the handler.
after_event_fatal(exc) ==
    IF exc = "none" THEN "connected" ELSE "killed"

\* What becomes of the client process when the handler raises: asyncio
\* logs an Exception raised by a callback and goes on; KeyboardInterrupt
\* leaves asyncio.run and is caught by the main loop.
after_event(exc) ==
    IF exc = "KeyboardInterrupt" THEN "killed" ELSE "connected"

\* A handler that deletes the record whatever the reason is.
connection_terminated_any(alive, error_code, reason_phrase) ==
    del_stream_id(alive, error_code).alive

\* QuicServerProtocol.quic_event_received for ConnectionTerminated(
\* error_code, reason_phrase): on 'terminate' the record is deleted if
\* str(error_code) is among the ids sel_all_alive lists.
connection_terminated(alive, error_code, reason_phrase) ==
    IF reason_phrase = "terminate"
    THEN IF \E i \in 1..Len(sel_all_alive(alive)) :
                sel_all_alive(alive)[i] = Str(error_code)
         THEN del_stream_id(alive, error_code).alive
         ELSE alive
    ELSE alive

(***************************************************************************)
(* State.                                                                  *)
(***************************************************************************)
VARIABLES
    alive_clients,        \* table alive_clients(stream_id, time)
    cmd_pool,             \* table cmd_pool(stream_id, cmd)
    files_send,           \* table files_send(stream_id, filename)
    files_recv,           \* table files_recv(stream_id, filename)
    now,                  \* time.time(), in whole seconds
    chosen,               \* the console's chosen client, -1 before a choice
    srv_remote_max_data,  \* server connection: _quic._remote_max_data
    srv_local_max_data,   \* server connection: _quic._local_max_data.value
    srv_temp,             \* the server's file 'temp': the bytes appended to it
    take_pc,              \* sel_and_del_cmd in progress: "idle" | "selected"
    take_id,              \* its stream_id
    take_list,            \* its return_list
    ret,                  \* the last operation: name, arguments, result and
                          \* the tables as they were when it began
    enq_log,              \* history: per id, the commands enqueued since the
                          \* last take of its commands
    enqueued,             \* history: the commands enqueued in interleaved runs
    returned,             \* history: the commands sel_and_del_cmd returned
    cl_pc,                \* the client process: "idle" between connections,
                          \* "connected", "killed" once KeyboardInterrupt
                          \* left the loop, "terminated"
    cl_remote_max_data,   \* client connection: _quic._remote_max_data
    cl_local_max_data,    \* client connection: _quic._local_max_data.value
    cl_temp,              \* the client's file 'temp'
    cl_log,               \* history: the client's seeing CLIENT_KILL and
                          \* what it did with the network afterwards
    reg_pc,               \* insert_new_stream_id in progress: "idle" |
                          \* "selected"
    reg_id,               \* its stream_id
    reg_clients,          \* its clients, the result of sel_all_alive
    cl_sleep,             \* seconds of the sleep of perform_connect that
                          \* have passed
    net                   \* the messages in flight on the open connection,
                          \* each way, each with the signal it was sent under

vars == <<alive_clients, cmd_pool, files_send, files_recv, now, chosen,
          srv_remote_max_data, srv_local_max_data, srv_temp, take_pc, take_id,
          take_list, ret, enq_log, enqueued, returned, cl_pc,
          cl_remote_max_data, cl_local_max_data, cl_temp, cl_log, cl_sleep, net,
          reg_pc, reg_id, reg_clients>>

mailbox == <<cmd_pool, files_send, files_recv>>
server == <<srv_remote_max_data, srv_local_max_data, srv_temp>>
taker == <<take_pc, take_id, take_list>>
registrar == <<reg_pc, reg_id, reg_clients>>
history == <<enqueued, returned>>
client ==
    <<cl_pc, cl_remote_max_data, cl_local_max_data, cl_temp, cl_log, cl_sleep>>

Ret(op, id, arg, val, exc, pre) ==
    [op |-> op, id |-> id, arg |-> arg, val |-> val, exc |-> exc, pre |-> pre]

Init ==
    /\ alive_clients = <<>>
    /\ cmd_pool = <<>>
    /\ files_send = <<>>
    /\ files_recv = <<>>
    /\ now = 0
    /\ chosen = -1
    /\ srv_remote_max_data = DEFAULT_MAX_DATA
    /\ srv_local_max_data = DEFAULT_MAX_DATA
    /\ srv_temp = <<>>
    /\ take_pc = "idle"
    /\ take_id = -1
    /\ take_list = <<>>
    /\ ret = Ret("init", -1, <<>>, <<>>, "none", <<>>)
    /\ enq_log = [id \in Ids |-> <<>>]
    /\ enqueued = {}
    /\ returned = <<>>
    /\ cl_pc = "idle"
    /\ cl_remote_max_data = DEFAULT_MAX_DATA
    /\ cl_local_max_data = DEFAULT_MAX_DATA
    /\ cl_temp = <<>>
    /\ cl_log = <<>>
    /\ cl_sleep = 0
    /\ reg_pc = "idle"
    /\ reg_id = -1
    /\ reg_clients = <<>>
    /\ net = [to_server |-> <<>>, to_client |-> <<>>]

(***************************************************************************)
(* The Action registry on its own: decode and encode applied to inputs.    *)
(***************************************************************************)
MemberValues == {Actions[i].value : i \in 1..Len(Actions)}

\* Integers handed to int_to_enum: every member value and its neighbours,
\* and the values a connection's signal field holds before any signal.
DecodeInputs ==
    {v + d : v \in MemberValues, d \in -2..2}
        \cup {-1, 0, 1, DEFAULT_MAX_DATA}

Decode(n) ==
    /\ ret' = Ret("int_to_enum", -1, n, int_to_enum(n), "none", <<>>)
    /\ UNCHANGED <<net, client, alive_clients, mailbox, now, chosen, server, taker, registrar,
                   enq_log, history>>

\* item.value of a member, then int_to_enum of it.
EncodeDecode(name) ==
    /\ ret' = Ret("encode_decode", -1, name, int_to_enum(ValueOf(name)),
                  "none", <<>>)
    /\ UNCHANGED <<net, client, alive_clients, mailbox, now, chosen, server, taker, registrar,
                   enq_log, history>>

NextEnum ==
    \/ \E n \in DecodeInputs : Decode(n)
    \/ \E name \in Members : EncodeDecode(name)

SpecEnum == Init /\ [][NextEnum]_vars

(***************************************************************************)
(* The client registry on its own: the operations of QuiC2Database on      *)
(* alive_clients, called one at a time, and the passing of time.           *)
(***************************************************************************)
Tick(dt) ==
    /\ now + dt <= MaxTime
    /\ now' = now + dt
    /\ ret' = Ret("tick", -1, dt, <<>>, "none", <<>>)
    /\ UNCHANGED <<net, client, alive_clients, mailbox, chosen, server, taker, registrar, enq_log,
                   history>>

Register(id) ==
    LET r == insert_new_stream_id(alive_clients, id, now)
    IN  /\ alive_clients' = r.alive
        /\ ret' = Ret("insert_new_stream_id", id, <<>>, r.ret, "none",
                      alive_clients)
        /\ UNCHANGED <<net, client, mailbox, now, chosen, server, taker, registrar, enq_log, history>>

ListAlive ==
    /\ ret' = Ret("sel_all_alive", -1, <<>>, sel_all_alive(alive_clients),
                  "none", alive_clients)
    /\ UNCHANGED <<net, client, alive_clients, mailbox, now, chosen, server, taker, registrar,
                   enq_log, history>>

Remove(id) ==
    LET r == del_stream_id(alive_clients, id)
    IN  /\ alive_clients' = r.alive
        /\ ret' = Ret("del_stream_id", id, <<>>, r.ret, "none", alive_clients)
        /\ UNCHANGED <<net, client, mailbox, now, chosen, server, taker, registrar, enq_log, history>>

Sweep ==
    LET r == clean_stagnant(alive_clients, now)
    IN  /\ alive_clients' = r.alive
        /\ ret' = Ret("clean_stagnant", -1, <<>>, r.removed, r.exc,
                      alive_clients)
        /\ UNCHANGED <<net, client, mailbox, now, chosen, server, taker, registrar, enq_log, history>>

\* A handler that on 'terminate' drops the client's queued commands with
\* its record.
TerminationHandled_purge(error_code, reason_phrase) ==
    /\ alive_clients' =
           connection_terminated(alive_clients, error_code, reason_phrase)
    /\ cmd_pool' = IF reason_phrase = "terminate"
                   THEN RowsNotOf(cmd_pool, error_code) ELSE cmd_pool
    /\ ret' = Ret("connection_terminated", error_code, reason_phrase, <<>>,
                  "none", alive_clients)
    /\ UNCHANGED <<client, files_send, files_recv, now, chosen, server, taker,
                   registrar, enq_log, history>>

\* The server handles ConnectionTerminated(error_code, reason_phrase).
TerminationHandled(error_code, reason_phrase) ==
    /\ alive_clients' =
           connection_terminated(alive_clients, error_code, reason_phrase)
    /\ ret' = Ret("connection_terminated", error_code, reason_phrase, <<>>,
                  "none", alive_clients)
    /\ UNCHANGED <<client, mailbox, now, chosen, server, taker, registrar, enq_log, history>>

ConnectionTerminated(error_code, reason_phrase) ==
    TerminationHandled(error_code, reason_phrase) /\ UNCHANGED net

NextRegistry ==
    \/ \E dt \in TickSteps : Tick(dt)
    \/ \E id \in Ids : Register(id)
    \/ ListAlive
    \/ \E id \in Ids : Remove(id)
    \/ Sweep
    \/ \E id \in Ids, reason \in Reasons : ConnectionTerminated(id, reason)

SpecRegistry == Init /\ [][NextRegistry]_vars

(***************************************************************************)
(* The mailbox store on its own: the operations of QuiC2Database on        *)
(* cmd_pool, files_send and files_recv, called one at a time.              *)
(***************************************************************************)
RowCount == Len(cmd_pool) + Len(files_send) + Len(files_recv)

EnqueueCommand(id, cmd) ==
    /\ RowCount < MaxRows
    /\ cmd_pool' = insert_new_cmd(cmd_pool, id, cmd)
    /\ enq_log' = [enq_log EXCEPT ![id] = Append(@, cmd)]
    /\ ret' = Ret("insert_new_cmd", id, cmd, <<>>, "none", cmd_pool)
    /\ UNCHANGED <<net, client, alive_clients, files_send, files_recv, now, chosen,
                   server, taker, registrar, history>>

EnqueueOutboundFile(id, filename) ==
    /\ RowCount < MaxRows
    /\ files_send' = insert_new_file_send(files_send, id, filename)
    /\ ret' = Ret("insert_new_file_send", id, filename, <<>>, "none",
                  files_send)
    /\ UNCHANGED <<net, client, alive_clients, cmd_pool, files_recv, now, chosen, server,
                   taker, registrar, enq_log, history>>

EnqueueInboundFile(id, filename) ==
    /\ RowCount < MaxRows
    /\ files_recv' = insert_new_file_recv(files_recv, id, filename)
    /\ ret' = Ret("insert_new_file_recv", id, filename, <<>>, "none",
                  files_recv)
    /\ UNCHANGED <<net, client, alive_clients, cmd_pool, files_send, now, chosen, server,
                   taker, registrar, enq_log, history>>

TakeCommands(id) ==
    LET r == sel_and_del_cmd(cmd_pool, id)
    IN  /\ cmd_pool' = r.pool
        /\ enq_log' = [enq_log EXCEPT ![id] = <<>>]
        /\ ret' = Ret("sel_and_del_cmd", id, enq_log[id], r.list, "none",
                      cmd_pool)
        /\ UNCHANGED <<net, client, alive_clients, files_send, files_recv, now, chosen,
                       server, taker, registrar, history>>

TakeOutboundFile(id) ==
    LET r == sel_and_del_file_send(files_send, id)
    IN  /\ files_send' = r.tbl
        /\ ret' = Ret("sel_and_del_file_send", id, <<>>, r.filename, "none",
                      files_send)
        /\ UNCHANGED <<net, client, alive_clients, cmd_pool, files_recv, now, chosen,
                       server, taker, registrar, enq_log, history>>

TakeInboundFile(id) ==
    LET r == sel_and_del_file_recv(files_recv, id)
    IN  /\ files_recv' = r.tbl
        /\ ret' = Ret("sel_and_del_file_recv", id, <<>>, r.filename, "none",
                      files_recv)
        /\ UNCHANGED <<net, client, alive_clients, cmd_pool, files_send, now, chosen,
                       server, taker, registrar, enq_log, history>>

NextMailbox ==
    \/ \E id \in Ids, cmd \in Cmds : EnqueueCommand(id, cmd)
    \/ \E id \in Ids, f \in SendNames : EnqueueOutboundFile(id, f)
    \/ \E id \in Ids, f \in RecvNames : EnqueueInboundFile(id, f)
    \/ \E id \in Ids : TakeCommands(id)
    \/ \E id \in Ids : TakeOutboundFile(id)
    \/ \E id \in Ids : TakeInboundFile(id)

SpecMailbox == Init /\ [][NextMailbox]_vars

(***************************************************************************)
(* The running system: the operator at the console (c2_dealer.py __main__) *)
(* and the server handling the hello of a client that connects             *)
(* (c2_client.py perform_connect, c2_server.py quic_event_received).       *)
(***************************************************************************)
Tables ==
    [alive |-> alive_clients, cmds |-> cmd_pool, send |-> files_send,
     recv |-> files_recv, err |-> {}]

\* 'si' then 'cc': the operator picks one of the ids sel_all_alive lists.
DealerChoose(id) ==
    /\ \E i \in 1..Len(alive_clients) :
           PyInt(sel_all_alive(alive_clients)[i]).val = id
    /\ chosen # id
    /\ chosen' = id
    /\ ret' = Ret("cc", id, <<>>, <<>>, "none", <<>>)
    /\ UNCHANGED <<net, client, alive_clients, mailbox, now, server, taker, registrar, enq_log,
                   history>>

\* 'nc': a stock choice is stored as str(code), anything else as typed.
DealerNewCmd(cmd) ==
    /\ chosen # -1
    /\ RowCount < MaxQueued
    /\ EnqueueCommand(chosen, cmd)

\* 'sc': the console has opened the file before it stores the name.
DealerSendFile(filename) ==
    /\ chosen # -1
    /\ RowCount < MaxQueued
    /\ EnqueueOutboundFile(chosen, filename)

\* 'cs': the name is stored as typed.
DealerRecvFile(filename) ==
    /\ chosen # -1
    /\ RowCount < MaxQueued
    /\ EnqueueInboundFile(chosen, filename)

\* b'Hello!'
HelloData == <<"H", "e", "l", "l", "o", "!">>

\* The server handles StreamDataReceived(id, data) on a connection whose
\* inbound signal field the client has set to signal.
\* The effect of one StreamDataReceived(id, data): h is what the handler
\* computed, pre the tables as they were when it began.
StreamDataReceived(id, signal, h, pre) ==
    /\ alive_clients' = h.db.alive
    /\ cmd_pool' = h.db.cmds
    /\ files_send' = h.db.send
    /\ files_recv' = h.db.recv
    /\ srv_remote_max_data' = h.rmd
    /\ srv_local_max_data' = h.lmd
    /\ srv_temp' = h.temp
    /\ enq_log' = IF int_to_enum(signal) = "CLIENT_HELLO"
                  THEN [enq_log EXCEPT ![id] = <<>>] ELSE enq_log
    /\ ret' = Ret("quic_event_received", id, signal,
                  [resp |-> h.resp, items |-> h.items, sent |-> h.sent],
                  h.exc, pre)
    /\ UNCHANGED <<client, now, chosen, taker, registrar, history>>

ServerStreamData(id, signal, lmd, data, fopen) ==
    /\ StreamDataReceived(id, signal,
                          quic_event_received(Tables, signal, lmd, srv_temp,
                                              id, data, now, fopen),
                          Tables @@ [lmd |-> lmd, temp |-> srv_temp])
    /\ UNCHANGED net

\* perform_connect: a new connection (the server's protocol object is new,
\* its outbound field at the default), CLIENT_HELLO set and b'Hello!' sent.
ClientHello(id) ==
    \E fopen \in BOOLEAN :
        ServerStreamData(id, ValueOf("CLIENT_HELLO"), DEFAULT_MAX_DATA,
                         HelloData, fopen)

\* Stream data arriving on an open connection while the inbound signal
\* field holds signal; the outbound field is as the last handler left it.
ClientData(id, signal, data) ==
    /\ IF signal = ValueOf("CLIENT_FILE_SEND")
       THEN Len(srv_temp) + Len(data) <= MaxTemp
       ELSE data # <<>>
    /\ ServerStreamData(id, signal, srv_local_max_data, data, TRUE)

Next ==
    \/ \E id \in Ids : DealerChoose(id)
    \/ \E cmd \in Cmds : DealerNewCmd(cmd)
    \/ \E f \in DealerSendNames : DealerSendFile(f)
    \/ \E f \in DealerRecvNames : DealerRecvFile(f)
    \/ \E id \in Ids : ClientHello(id)

Spec == Init /\ [][Next]_vars

(***************************************************************************)
(* The server alone, handling whatever arrives on a connection: hellos and *)
(* stream data under every inbound signal value, with entries queued for   *)
(* the clients.                                                            *)
(***************************************************************************)
\* What the operator has queued: a stock command, a file each way.
QueueEntry(id) ==
    /\ RowCount < MaxQueued
    /\ \/ EnqueueCommand(id, Str(2411724))
       \/ EnqueueOutboundFile(id, <<"a">>)
       \/ EnqueueInboundFile(id, <<"a">>)

NextServer ==
    \/ \E id \in Ids : QueueEntry(id)
    \/ \E id \in Ids : ClientHello(id)
    \/ \E id \in Ids, signal \in InboundSignals, data \in InboundData :
           ClientData(id, signal, data)

SpecServer == Init /\ [][NextServer]_vars

(***************************************************************************)
(* The client process on its own (c2_client.py): the main loop connects,   *)
(* says hello and handles the events that arrive until the sleep of        *)
(* perform_connect ends; the events are whatever a server may send.        *)
(***************************************************************************)
\* perform_connect(kill=False) up to the sleep: a new connection (a new
\* protocol object, the signal fields at their default), CLIENT_HELLO set
\* and b'Hello!' sent.
PerformConnect ==
    /\ cl_pc = "idle"
    /\ cl_pc' = "connected"
    /\ cl_remote_max_data' = DEFAULT_MAX_DATA
    /\ cl_local_max_data' = ValueOf("CLIENT_HELLO")
    /\ cl_sleep' = 0
    /\ ret' = Ret("perform_connect", ClientId, <<>>,
                  [sent |-> <<Msg(ValueOf("CLIENT_HELLO"), HelloData)>>,
                   ran |-> <<>>],
                  "none", <<>>)
    /\ UNCHANGED <<alive_clients, mailbox, now, chosen, server, taker, registrar,
                   enq_log, history, cl_temp, cl_log>>

ClientConnect == PerformConnect /\ UNCHANGED net

\* The effect of one event on the client: h is what the handler computed.
ClientEventHandled(signal, h, pre) ==
    /\ cl_remote_max_data' = signal
    /\ cl_local_max_data' = h.lmd
    /\ cl_temp' = h.temp
    /\ cl_pc' = after_event(h.exc)
    /\ cl_log' = IF h.exc = "KeyboardInterrupt"
                 THEN Append(cl_log, [op |-> "kill", code |-> ClientId,
                                      reason |-> ""])
                 ELSE cl_log
    /\ ret' = Ret("client_event", ClientId, signal,
                  [sent |-> h.sent, ran |-> h.ran], h.exc, pre)
    /\ UNCHANGED <<alive_clients, mailbox, now, chosen, server, taker, registrar,
                   enq_log, history, cl_sleep>>

\* An event arrives while the inbound signal field holds signal.
ClientEvent(signal, is_stream, data, env) ==
    /\ cl_pc = "connected"
    /\ (is_stream /\ signal = ValueOf("SERVER_FILE_SEND"))
           => Len(cl_temp) + Len(data) <= MaxTemp
    /\ ClientEventHandled(
           signal,
           client_event_received(
               [lmd |-> cl_local_max_data, temp |-> cl_temp, sent |-> <<>>,
                ran |-> <<>>, exc |-> "none"],
               signal, is_stream, data, env),
           [lmd |-> cl_local_max_data, temp |-> cl_temp, data |-> data,
            env |-> env, is_stream |-> is_stream])
    /\ UNCHANGED net

\* The sleep of perform_connect ends: the connection is closed and the main
\* loop comes round.
SleepReturned ==
    /\ cl_pc = "connected"
    /\ cl_pc' = "idle"
    /\ ret' = Ret("sleep_done", ClientId, <<>>, <<>>, "none", <<>>)
    /\ UNCHANGED <<alive_clients, mailbox, now, chosen, server, taker, registrar,
                   enq_log, history, cl_remote_max_data, cl_local_max_data,
                   cl_temp, cl_log, cl_sleep>>

ClientSleepDone == SleepReturned /\ UNCHANGED net

\* except KeyboardInterrupt: perform_connect(kill=True) opens a connection
\* and closes it with error_code=stream_id and reason 'terminate'; the
\* process exits.
KillConnected ==
    /\ cl_pc = "killed"
    /\ cl_pc' = "terminated"
    /\ cl_remote_max_data' = DEFAULT_MAX_DATA
    /\ cl_local_max_data' = DEFAULT_MAX_DATA
    /\ cl_log' = cl_log \o
           <<[op |-> "connect", code |-> ClientId, reason |-> ""],
             [op |-> "close", code |-> ClientId, reason |-> "terminate"]>>
    /\ ret' = Ret("perform_connect_kill", ClientId, <<>>, <<>>, "none", <<>>)
    /\ UNCHANGED <<alive_clients, mailbox, now, chosen, server, taker, registrar,
                   enq_log, history, cl_temp, cl_sleep>>

ClientKillConnect == KillConnected /\ UNCHANGED net

NextClient ==
    \/ ClientConnect
    \/ \E in \in ClientInputs : ClientEvent(in.signal, TRUE, in.data, in.env)
    \/ \E signal \in ClientSignals :
           ClientEvent(signal, FALSE, <<>>, DefaultEnv)
    \/ ClientSleepDone
    \/ ClientKillConnect

SpecClient == Init /\ [][NextClient]_vars

(***************************************************************************)
(* The two chunking loops on their own, applied to payloads and caps.      *)
(***************************************************************************)
MaxPayload == 5
MaxCap == 3

Bytes == {0, 1}

Payloads == UNION {[1..n -> Bytes] : n \in 0..MaxPayload}

\* with open(...) as f: f.read(m) until nothing is read, one message per
\* read; the loop of the server's file send and of the client's.
ReadLoop(data, m) ==
    /\ ret' = Ret("read_loop", -1, [data |-> data, m |-> m],
                  Chunks(data, m), "none", <<>>)
    /\ UNCHANGED <<net, client, alive_clients, mailbox, now, chosen, server, taker, registrar,
                   enq_log, history>>

\* The client's do-while over one response.
ResponseLoop(response, m) ==
    /\ ret' = Ret("response_loop", -1, [data |-> response, m |-> m],
                  SliceLoop(response, 0, m), "none", <<>>)
    /\ UNCHANGED <<net, client, alive_clients, mailbox, now, chosen, server, taker, registrar,
                   enq_log, history>>

NextChunk ==
    \/ \E data \in Payloads, m \in 1..MaxCap : ReadLoop(data, m)
    \/ \E data \in Payloads, m \in 1..MaxCap : ResponseLoop(data, m)

SpecChunk == Init /\ [][NextChunk]_vars

(***************************************************************************)
(* One client and the server joined by a connection: what one end sends is *)
(* what the other receives, in order, each message under the signal it was *)
(* sent with.  The operator queues one command at a time for the client.   *)
(***************************************************************************)
\* Commands the operator queues: the stock codes of LS and IPCONFIG, and
\* free-form text.
SysCmds == {Str(2411724), Str(2516582), <<"l", "s">>}

\* The machine the client runs on and the exit code of what it runs.
SysEnvs ==
    {[os |-> os, exit |-> exit, file |-> "present"] :
        os \in {"Linux", "Darwin"}, exit \in {0, 1}}

SysQueue(cmd) ==
    /\ cmd_pool = <<>>
    /\ EnqueueCommand(ClientId, cmd)

\* perform_connect: the hello is on its way to the server.
SysConnect ==
    /\ PerformConnect
    /\ net' = [to_server |-> ret'.val.sent, to_client |-> <<>>]

\* The server has handled message m: what it sent is on its way.
SysServerHandled(m, h, pre) ==
    /\ StreamDataReceived(ClientId, m.signal, h, pre)
    /\ net' = [to_server |-> Tail(net.to_server),
               to_client |-> net.to_client \o h.sent]

\* The server's handler on message m, its outbound field holding lmd.
SysServerEvent(m, lmd) ==
    SysServerHandled(m,
                     quic_event_received(Tables, m.signal, lmd, srv_temp,
                                         ClientId, m.data, now, TRUE),
                     Tables @@ [lmd |-> lmd, temp |-> srv_temp])

\* The server receives the next message of the client.  The hello is the
\* first message of a connection, for which the server's protocol object
\* is new and its outbound field at the default.
SysServerRecv ==
    /\ net.to_server # <<>>
    /\ SysServerEvent(Head(net.to_server),
                      IF Head(net.to_server).signal = ValueOf("CLIENT_HELLO")
                      THEN DEFAULT_MAX_DATA ELSE srv_local_max_data)

\* The client has handled message m: what it sent is on its way.
SysClientHandled(m, h, pre) ==
    /\ ClientEventHandled(m.signal, h, pre)
    /\ net' = [to_server |-> net.to_server \o h.sent,
               to_client |-> Tail(net.to_client)]

\* The client's handler on message m.
SysClientEvent(m, env) ==
    /\ cl_pc = "connected"
    /\ SysClientHandled(
           m,
           client_event_received(
               [lmd |-> cl_local_max_data, temp |-> cl_temp, sent |-> <<>>,
                ran |-> <<>>, exc |-> "none"],
               m.signal, TRUE, m.data, env),
           [lmd |-> cl_local_max_data, temp |-> cl_temp, data |-> m.data,
            env |-> env, is_stream |-> TRUE])

\* The client receives the next message of the server.
SysClientRecv ==
    /\ net.to_client # <<>>
    /\ \E env \in SysEnvs : SysClientEvent(Head(net.to_client), env)

\* The sleep ends and the connection is closed with what was in flight.
SysSleepDone ==
    /\ SleepReturned
    /\ net' = [to_server |-> <<>>, to_client |-> <<>>]

NextSystem ==
    \/ \E cmd \in SysCmds : SysQueue(cmd)
    \/ SysConnect
    \/ SysServerRecv
    \/ SysClientRecv
    \/ SysSleepDone

SpecSystem == Init /\ [][NextSystem]_vars

(***************************************************************************)
(* The framing of items by the delimiter on its own: the server's join and *)
(* the client's split applied to sequences of items.                       *)
(***************************************************************************)
MaxItems == 2

\* Items the operator may have typed: no delimiter inside, no white space
\* at either end, not empty.
FrameItems ==
    {<<"a">>, <<"a", " ", "b">>, <<"*">>, <<"*", "a">>, <<"a", "*">>,
     <<"*", "*">>}

FrameSeqs == UNION {[1..n -> FrameItems] : n \in 0..MaxItems}

RECURSIVE Framed(_, _, _)
\* What the client receives when the messages are joined: each item with
\* the delimiter after it as the server sends a free-form command, and
\* before item i, and after the last, extras[i] payloads of the delimiter
\* alone as the server sends for a stock command.
Framed(items, extras, i) ==
    (IF extras[i] = 1 THEN DELIMITER ELSE <<>>)
        \o (IF i > Len(items) THEN <<>>
            ELSE items[i] \o DELIMITER \o Framed(items, extras, i + 1))

\* The items joined and split again, once.
FrameRoundTrip(items, extras) ==
    /\ ret.op = "init"
    /\ ret' = Ret("frame", -1, [items |-> items, extras |-> extras],
                  ServerData(Framed(items, extras, 1)), "none", <<>>)
    /\ UNCHANGED <<net, client, alive_clients, mailbox, now, chosen, server,
                   taker, registrar, enq_log, history>>

NextFrame ==
    \E items \in FrameSeqs :
        \E extras \in [1..(Len(items) + 1) -> {0, 1}] :
            FrameRoundTrip(items, extras)

SpecFrame == Init /\ [][NextFrame]_vars

(***************************************************************************)
(* A client with no work pending and the server's sweep, with the clock:   *)
(* the client says hello, sleeps for randrange(6, 9) seconds and connects  *)
(* again, while db_ops runs clean_stagnant.                                *)
(***************************************************************************)
\* randrange(6, 9)
SleepSeconds == 6..8

\* Seconds by which the clock advances during the sleep in one step.
SleepSteps == {1, 5, 6}

\* Time passes while the client sleeps, its hello handled.
LiveSleep(dt) ==
    /\ cl_pc = "connected"
    /\ net.to_server = <<>>
    /\ \E n \in SleepSeconds : cl_sleep + dt <= n
    /\ now + dt <= MaxTime
    /\ cl_sleep' = cl_sleep + dt
    /\ now' = now + dt
    /\ ret' = Ret("sleep", ClientId, dt, <<>>, "none", <<>>)
    /\ UNCHANGED <<net, alive_clients, mailbox, chosen, server, taker, registrar,
                   enq_log, history, cl_pc, cl_remote_max_data,
                   cl_local_max_data, cl_temp, cl_log>>

\* The sleep is over.
LiveSleepDone ==
    /\ cl_sleep \in SleepSeconds
    /\ SysSleepDone

NextLive ==
    \/ SysConnect
    \/ SysServerRecv
    \/ \E dt \in SleepSteps : LiveSleep(dt)
    \/ LiveSleepDone
    \/ Sweep

SpecLive == Init /\ [][NextLive]_vars

(***************************************************************************)
(* The server's hello handling over a database of which some tables fail:  *)
(* entries are queued for the clients, and while a hello is handled the    *)
(* statements on the tables in err raise sqlite3.OperationalError.         *)
(***************************************************************************)
MailboxTables == {"cmds", "send", "recv"}

\* A CLIENT_HELLO handled while the tables in err fail.
FailingHello(id, err) ==
    /\ StreamDataReceived(
           id, ValueOf("CLIENT_HELLO"),
           quic_event_received([Tables EXCEPT !.err = err],
                               ValueOf("CLIENT_HELLO"), DEFAULT_MAX_DATA,
                               srv_temp, id, HelloData, now, TRUE),
           [Tables EXCEPT !.err = err]
               @@ [lmd |-> DEFAULT_MAX_DATA, temp |-> srv_temp])
    /\ UNCHANGED net

NextStorage ==
    \/ \E id \in Ids : QueueEntry(id)
    \/ \E id \in Ids : ClientHello(id)
    \/ \E id \in Ids, err \in (SUBSET MailboxTables) \ {{}} :
           FailingHello(id, err)

SpecStorage == Init /\ [][NextStorage]_vars

(***************************************************************************)
(* insert_new_stream_id in two steps, its select and its insert, beside    *)
(* the other writers of alive_clients.  The server runs quic_event_received*)
(* and db_ops as callbacks of one event loop, so a register, a removal and *)
(* a sweep of the server never overlap; the console is another process,    *)
(* whose exit clears the tables at any moment.                             *)
(***************************************************************************)
\* clients, _ = self.sel_all_alive()
RegSelect(id) ==
    /\ reg_pc = "idle"
    /\ reg_pc' = "selected"
    /\ reg_id' = id
    /\ reg_clients' = sel_all_alive(alive_clients)
    /\ ret' = Ret("select_alive", id, <<>>, sel_all_alive(alive_clients),
                  "none", alive_clients)
    /\ UNCHANGED <<net, client, alive_clients, mailbox, now, chosen, server,
                   taker, enq_log, history>>

\* The loop over clients and the insert.
RegInsert ==
    /\ reg_pc = "selected"
    /\ reg_pc' = "idle"
    /\ alive_clients' =
           insert_after_select(alive_clients, reg_clients, reg_id, now).alive
    /\ ret' = Ret("insert_new_stream_id", reg_id, reg_clients,
                  insert_after_select(alive_clients, reg_clients, reg_id,
                                      now).ret,
                  "none", alive_clients)
    /\ reg_id' = -1
    /\ reg_clients' = <<>>
    /\ UNCHANGED <<net, client, mailbox, now, chosen, server, taker, enq_log,
                   history>>

\* The console's close_connection: _clear deletes every row of every table.
DealerClear ==
    /\ alive_clients' = <<>>
    /\ cmd_pool' = <<>>
    /\ files_send' = <<>>
    /\ files_recv' = <<>>
    /\ ret' = Ret("_clear", -1, <<>>, <<>>, "none", alive_clients)
    /\ UNCHANGED <<net, client, now, chosen, server, taker, registrar,
                   enq_log, history>>

NextRegConc ==
    \/ \E id \in Ids : RegSelect(id)
    \/ RegInsert
    \/ DealerClear
    \/ reg_pc = "idle" /\ Sweep
    \/ reg_pc = "idle" /\ \E id \in Ids : ConnectionTerminated(id, "terminate")
    \/ reg_pc = "idle" /\ \E dt \in TickSteps : Tick(dt)

SpecRegConc == Init /\ [][NextRegConc]_vars

(***************************************************************************)
(* The client and the server with batches: the operator queues several     *)
(* commands before the client's hello and the dispatch loop sends them one *)
(* after the other from one call of the handler.  The library may hand the *)
(* client the data of several sends as one event ("QUIC packet may combine *)
(* data frames", "QUIC packets combined by the library"); the client reads *)
(* the one signal field when the event arrives.                            *)
(***************************************************************************)
BatchQueue(cmd) == EnqueueCommand(ClientId, cmd)

RECURSIVE CombinedData(_)
\* The data of the sends msgs, in the order sent, as one event's data.
CombinedData(msgs) ==
    IF msgs = <<>> THEN <<>>
    ELSE Head(msgs).data \o CombinedData(Tail(msgs))

\* The event the client gets for the sends msgs: their data under the
\* signal written for the last of them.
Combined(msgs) == Msg(msgs[Len(msgs)].signal, CombinedData(msgs))

\* The client has handled the first k messages in flight as one event.
BatchClientHandled(k, m, h, pre) ==
    /\ ClientEventHandled(m.signal, h, pre)
    /\ net' = [to_server |-> net.to_server \o h.sent,
               to_client |-> SubSeq(net.to_client, k + 1, Len(net.to_client))]

\* The client's handler on the event m made of the first k messages.
BatchClientEvent(k, m, env) ==
    /\ cl_pc = "connected"
    /\ BatchClientHandled(
           k, m,
           client_event_received(
               [lmd |-> cl_local_max_data, temp |-> cl_temp, sent |-> <<>>,
                ran |-> <<>>, exc |-> "none"],
               m.signal, TRUE, m.data, env),
           [lmd |-> cl_local_max_data, temp |-> cl_temp, data |-> m.data,
            env |-> env, is_stream |-> TRUE,
            msgs |-> SubSeq(net.to_client, 1, k)])

\* The client receives what the server sent: one send as one event, or
\* several sends combined.
BatchClientRecv ==
    \E k \in 1..Len(net.to_client), env \in SysEnvs :
        BatchClientEvent(k, Combined(SubSeq(net.to_client, 1, k)), env)

NextBatch ==
    \/ \E cmd \in SysCmds : BatchQueue(cmd)
    \/ SysConnect
    \/ SysServerRecv
    \/ BatchClientRecv
    \/ SysSleepDone

SpecBatch == Init /\ [][NextBatch]_vars

(***************************************************************************)
(* The whole life of one client: the operator queues commands and a file   *)
(* request, the client connects, the two ends exchange messages, and a     *)
(* client that met CLIENT_KILL opens its last connection and closes it.    *)
(* What the client sent before is handled by the server before the close   *)
(* of the connection opened after it.                                      *)
(***************************************************************************)
\* What the operator types as a command: the code of LS, free-form text,
\* and the number 10800332.
SessionCmds == {Str(2411724), <<"l", "s">>, Str(10800332)}

\* The machine the client runs on: the exit code of what it runs and
\* whether the file asked for can be opened.
SessionEnvs ==
    {[os |-> "Linux", exit |-> exit, file |-> file] :
        exit \in {0, 1}, file \in {"present", "absent", "denied"}}

SessionQueueCmd(cmd) ==
    /\ Len(cmd_pool) < MaxQueued
    /\ EnqueueCommand(ClientId, cmd)

\* The operator asks for the client's file a; the server's file 'temp' only
\* grows, so one file is asked for in a run.
SessionQueueFile ==
    /\ files_recv = <<>>
    /\ srv_temp = <<>>
    /\ \A i \in 1..Len(net.to_server) :
           net.to_server[i] # Msg(ValueOf("CLIENT_FILE_SEND"), <<1, 2, 3>>)
    /\ EnqueueInboundFile(ClientId, <<"a">>)

\* A close that carries the code and no reason.
CloseOf_plain(code, reason) == [op |-> "close", code |-> code, reason |-> ""]

\* The close of a connection as it travels to the server.
CloseOf(code, reason) == [op |-> "close", code |-> code, reason |-> reason]

IsClose(m) == "op" \in DOMAIN m

\* The server receives the next message of the client.
SessionServerRecv ==
    /\ net.to_server # <<>>
    /\ ~IsClose(Head(net.to_server))
    /\ SysServerRecv

\* The server is told of the close of a connection.
SessionServerClosed ==
    /\ net.to_server # <<>>
    /\ IsClose(Head(net.to_server))
    /\ TerminationHandled(Head(net.to_server).code,
                          Head(net.to_server).reason)
    /\ net' = [net EXCEPT !.to_server = Tail(@)]

\* The client receives the next message of the server.
SessionClientRecv ==
    /\ net.to_client # <<>>
    /\ \E env \in SessionEnvs : SysClientEvent(Head(net.to_client), env)

\* perform_connect(kill=True): the last connection, closed with the
\* client's id as the code and 'terminate' as the reason.
SessionKillConnect ==
    /\ KillConnected
    /\ net' = [to_server |-> Append(net.to_server,
                                    CloseOf(ClientId, "terminate")),
               to_client |-> <<>>]

NextSession ==
    \/ \E cmd \in SessionCmds : SessionQueueCmd(cmd)
    \/ SessionQueueFile
    \/ SysConnect
    \/ SessionServerRecv
    \/ SessionServerClosed
    \/ SessionClientRecv
    \/ SysSleepDone
    \/ SessionKillConnect

SpecSession == Init /\ [][NextSession]_vars

\* SessionServerRecv can be taken: it has no guard but these and always
\* shortens net.to_server.
CanServerRecv == net.to_server # <<>> /\ ~IsClose(Head(net.to_server))

\* WF_vars(SessionServerRecv) with its ENABLED written out.
ServerRecvFair ==
    []<>(~CanServerRecv) \/ []<><<SessionServerRecv>>_vars

\* The client's main loop goes from the except clause straight to the last
\* connection, and the server's event loop handles every event it is given.
SpecSessionFair ==
    /\ SpecSession
    /\ WF_vars(SessionKillConnect)
    /\ WF_vars(SessionServerClosed)
    /\ ServerRecvFair

(***************************************************************************)
(* The server with its registry and its mailbox together: entries are      *)
(* queued, clients say hello, connections are closed with and without      *)
(* 'terminate', the sweep runs and time passes, a step of the clock        *)
(* taking a record past the staleness threshold.                           *)
(***************************************************************************)
NextRemoval ==
    \/ \E id \in Ids : QueueEntry(id)
    \/ \E id \in Ids : ClientHello(id)
    \/ \E id \in Ids, reason \in Reasons : ConnectionTerminated(id, reason)
    \/ Sweep
    \/ Tick(STALE_SECONDS + 1)

SpecRemoval == Init /\ [][NextRemoval]_vars

(***************************************************************************)
(* The operator's insert_new_cmd running while the server is inside        *)
(* sel_and_del_cmd.  The console and the server are two processes with a   *)
(* connection each; sqlite3 opens a transaction before the delete, not     *)
(* before the select, so the select and the delete are two steps and a     *)
(* committed insert can fall between them.  The server runs its handlers   *)
(* on one thread: there is one take at a time.                             *)
(***************************************************************************)
ConcEnqueue(id, cmd) ==
    /\ Cardinality(enqueued) < MaxEnq
    /\ <<id, cmd>> \notin enqueued
    /\ cmd_pool' = insert_new_cmd(cmd_pool, id, cmd)
    /\ enqueued' = enqueued \cup {<<id, cmd>>}
    /\ enq_log' = [enq_log EXCEPT ![id] = Append(@, cmd)]
    /\ ret' = Ret("insert_new_cmd", id, cmd, <<>>, "none", cmd_pool)
    /\ UNCHANGED <<net, client, alive_clients, files_send, files_recv, now, chosen,
                   server, taker, registrar, returned>>

\* The select statement: return_list is filled.
TakeSelect(id) ==
    /\ take_pc = "idle"
    /\ take_pc' = "selected"
    /\ take_id' = id
    /\ take_list' = sel_and_del_cmd(cmd_pool, id).list
    /\ ret' = Ret("select", id, <<>>, <<>>, "none", cmd_pool)
    /\ UNCHANGED <<net, client, alive_clients, mailbox, now, chosen, server, enq_log,
                   history, registrar>>

\* The delete statement, and the return of return_list.
TakeDelete ==
    /\ take_pc = "selected"
    /\ take_pc' = "idle"
    /\ cmd_pool' = sel_and_del_cmd(cmd_pool, take_id).pool
    /\ returned' = returned \o [i \in 1..Len(take_list) |->
                                    <<take_id, take_list[i]>>]
    /\ enq_log' = [enq_log EXCEPT ![take_id] = <<>>]
    /\ ret' = Ret("sel_and_del_cmd", take_id, enq_log[take_id], take_list,
                  "none", cmd_pool)
    /\ take_id' = -1
    /\ take_list' = <<>>
    /\ UNCHANGED <<net, client, alive_clients, files_send, files_recv, now, chosen,
                   server, enqueued, registrar>>

NextConc ==
    \/ \E id \in Ids, cmd \in Cmds : ConcEnqueue(id, cmd)
    \/ \E id \in Ids : TakeSelect(id)
    \/ TakeDelete

SpecConc == Init /\ [][NextConc]_vars

(***************************************************************************)
(* Properties of the mailbox store (SpecMailbox).                          *)
(***************************************************************************)
\* C1: a take of an outbound file (resp. of an inbound file request) for an
\* id with two or more queued entries returns the oldest filename and
\* deletes that entry alone: the others stay queued, in insertion order, for
\* later takes.
C1_TakeFileDeletesOnlyOldest ==
    /\ (ret.op = "sel_and_del_file_send" /\ Len(RowsOf(ret.pre, ret.id)) >= 2)
           => /\ ret.val = RowsOf(ret.pre, ret.id)[1].filename
              /\ RowsOf(files_send, ret.id) = Tail(RowsOf(ret.pre, ret.id))
    /\ (ret.op = "sel_and_del_file_recv" /\ Len(RowsOf(ret.pre, ret.id)) >= 2)
           => /\ ret.val = RowsOf(ret.pre, ret.id)[1].filename
              /\ RowsOf(files_recv, ret.id) = Tail(RowsOf(ret.pre, ret.id))

\* C4: take_commands(id) returns the commands enqueued for id since the
\* previous take, in the order they were enqueued, leaves no command of id
\* queued (a take that follows at once returns the empty sequence), and
\* neither returns nor deletes a command of another id.
C4_TakeCommandsAllInOrder ==
    ret.op = "sel_and_del_cmd" =>
        /\ ret.val = ret.arg
        /\ ret.val = CmdsIn(RowsOf(ret.pre, ret.id))
        /\ RowsOf(cmd_pool, ret.id) = <<>>
        /\ sel_and_del_cmd(cmd_pool, ret.id).list = <<>>
        /\ RowsNotOf(cmd_pool, ret.id) = RowsNotOf(ret.pre, ret.id)

\* A take that returned two different commands while another id had
\* commands queued.
C4_Witness ==
    /\ ret.op = "sel_and_del_cmd"
    /\ Len(ret.val) >= 2
    /\ ret.val[1] # ret.val[2]
    /\ cmd_pool # <<>>

(***************************************************************************)
(* Properties of the client registry (SpecRegistry).                       *)
(***************************************************************************)
HasRecord(alive, id) == \E i \in 1..Len(alive) : alive[i].stream_id = Str(id)

C7_SweepEvictsExactlyStale ==
    ret.op = "clean_stagnant" =>
        LET Stale(r) == now - r.time > STALE_SECONDS
            Fresh(r) == ~Stale(r)
        IN  /\ ret.exc = "none"
            /\ ret.val = sel_all_alive(SelectSeq(ret.pre, Stale))
            /\ alive_clients = SelectSeq(ret.pre, Fresh)

\* C8: remove(id) returns true if and only if a record of id existed; on an
\* absent id it returns false, changes nothing and does not fault.
C8_RemoveReportsExistence ==
    ret.op = "del_stream_id" =>
        /\ ret.exc = "none"
        /\ ret.val = HasRecord(ret.pre, ret.id)
        /\ ~HasRecord(alive_clients, ret.id)
        /\ (~HasRecord(ret.pre, ret.id) => alive_clients = ret.pre)

(***************************************************************************)
(* Properties of the Action registry (SpecEnum).                           *)
(***************************************************************************)
\* C9: int_to_enum is total: it returns a member for every integer, and
\* NOT_A_VALID_INTEGER for every integer that is no member's value.
C9_DecodeTotal ==
    ret.op = "int_to_enum" =>
        /\ ret.val \in Members
        /\ (ret.arg \notin MemberValues => ret.val = "NOT_A_VALID_INTEGER")

\* A decode of an integer that is no member's value.
C9_Witness ==
    /\ ret.op = "int_to_enum"
    /\ ret.arg \notin MemberValues
    /\ ret.val = "NOT_A_VALID_INTEGER"

CatValues(c) == {Actions[i].value : i \in {j \in 1..Len(Actions) : Actions[j].cat = c}}

Lo(c) == CHOOSE v \in CatValues(c) : \A w \in CatValues(c) : v <= w

Hi(c) == CHOOSE v \in CatValues(c) : \A w \in CatValues(c) : w <= v

\* C10: member values are pairwise distinct, decode(encode(s)) = s for
\* every member s, and the five category ranges (custom, stock
\* WHOAMI..IPCONFIG, status, client, server) are contiguous, each holding
\* the values of its own members only, and pairwise disjoint.
C10_EnumBijection ==
    /\ \A i, j \in 1..Len(Actions) :
           i # j => Actions[i].value # Actions[j].value
    /\ (ret.op = "encode_decode" => ret.val = ret.arg)
    /\ \A c, d \in {Categories[k] : k \in 1..Len(Categories)} :
           c # d => Hi(c) < Lo(d) \/ Hi(d) < Lo(c)
    /\ \A k \in 1..Len(Categories), i \in 1..Len(Actions) :
           (Lo(Categories[k]) <= Actions[i].value
                /\ Actions[i].value <= Hi(Categories[k]))
               => Actions[i].cat = Categories[k]
    /\ Lo("stock") = ValueOf("WHOAMI")
    /\ Hi("stock") = ValueOf("IPCONFIG")

\* The last member declared was encoded and decoded back.
C10_Witness ==
    /\ ret.op = "encode_decode"
    /\ ret.arg = "SERVER_FILE_RECV"
    /\ ret.val = "SERVER_FILE_RECV"

(***************************************************************************)
(* Properties of the server's hello handling (Spec).                       *)
(***************************************************************************)
IsHello == ret.op = "quic_event_received" /\ ret.arg = ValueOf("CLIENT_HELLO")

\* The queues of the client whose event was handled, as the handler found
\* them.
PreCmds == CmdsIn(RowsOf(ret.pre.cmds, ret.id))

PreSend == NamesIn(RowsOf(ret.pre.send, ret.id))

PreRecv == NamesIn(RowsOf(ret.pre.recv, ret.id))

\* C2: on CLIENT_HELLO the response is that of the first non-empty queue,
\* in the order commands, outbound file, inbound file: SERVER_SEES_HELLO
\* with all queued commands, else SERVER_FILE_SEND with one filename, else
\* SERVER_FILE_RECV with one filename; NO_RESPONSE_NEEDED if and only if
\* the three queues of the id are empty.
C2_HelloFirstNonEmptyQueue ==
    IsHello =>
        IF PreCmds # <<>>
        THEN ret.val.resp = "SERVER_SEES_HELLO" /\ ret.val.items = PreCmds
        ELSE IF PreSend # <<>>
        THEN ret.val.resp = "SERVER_FILE_SEND" /\ ret.val.items = <<PreSend[1]>>
        ELSE IF PreRecv # <<>>
        THEN ret.val.resp = "SERVER_FILE_RECV" /\ ret.val.items = <<PreRecv[1]>>
        ELSE ret.val.resp = "NO_RESPONSE_NEEDED"

\* The decimal text of a stock-command code.
IsStockText(cmd) ==
    \E i \in 1..Len(Actions) :
        Actions[i].cat = "stock" /\ cmd = Str(Actions[i].value)

StockOf(cmd) ==
    Actions[CHOOSE i \in 1..Len(Actions) :
                Actions[i].cat = "stock" /\ cmd = Str(Actions[i].value)].value

\* C3: every item of a command batch taken on a CLIENT_HELLO produces
\* exactly one message, in order: the decimal text of a stock-command code
\* goes out under that stock signal, every other item goes out as its text
\* under CUSTOM; no item is dropped and the handler does not fault.
C3_EveryItemOneMessage ==
    (IsHello /\ ret.val.resp = "SERVER_SEES_HELLO") =>
        /\ ret.exc = "none"
        /\ Len(ret.val.sent) = Len(ret.val.items)
        /\ \A i \in 1..Len(ret.val.items) :
               i <= Len(ret.val.sent) =>
                   IF IsStockText(ret.val.items[i])
                   THEN ret.val.sent[i].signal = StockOf(ret.val.items[i])
                   ELSE /\ ret.val.sent[i].signal = ValueOf("CUSTOM")
                        /\ ret.val.sent[i].data = ret.val.items[i] \o DELIMITER

(***************************************************************************)
(* Properties of the server's handling of stream data and disconnects      *)
(* (SpecServer, SpecRegistry, Spec).                                       *)
(***************************************************************************)
IsStreamData == ret.op = "quic_event_received"

MailboxAsBefore ==
    /\ cmd_pool = ret.pre.cmds
    /\ files_send = ret.pre.send
    /\ files_recv = ret.pre.recv

\* C11: stream data received while the inbound signal field holds an
\* undecodable value resets that field to the default, sets the outbound
\* signal to CLIENT_KILL and sends one message; nothing else happens: no
\* client record is created, no mailbox entry is dequeued, nothing is
\* written to the file 'temp' and the handler does not fault.
C11_UndecodableResetsAndKills ==
    (IsStreamData /\ ret.arg \notin MemberValues) =>
        /\ srv_remote_max_data = DEFAULT_MAX_DATA
        /\ srv_local_max_data = ValueOf("CLIENT_KILL")
        /\ ret.val.sent = <<Msg(ValueOf("CLIENT_KILL"), <<>>)>>
        /\ ret.exc = "none"
        /\ alive_clients = ret.pre.alive
        /\ MailboxAsBefore
        /\ srv_temp = ret.pre.temp

\* An undecodable signal other than the default, from an id that has no
\* record and has a command queued, on a connection whose outbound field
\* is not CLIENT_KILL yet.
C11_Witness ==
    /\ IsStreamData
    /\ ret.arg \notin MemberValues
    /\ ~HasRecord(ret.pre.alive, ret.id)
    /\ RowsOf(ret.pre.cmds, ret.id) # <<>>
    /\ ret.pre.lmd # ValueOf("CLIENT_KILL")
    /\ ret.arg # DEFAULT_MAX_DATA

\* C12: on an inbound CLIENT_RESPONSE, CLIENT_FILE_SEND or FILE_NOT_FOUND
\* the server sends no message, leaves its outbound signal as it was and
\* dequeues nothing from any mailbox queue.
C12_NoReplyNoDequeue ==
    (IsStreamData /\ ret.arg \in {ValueOf("CLIENT_RESPONSE"),
                                   ValueOf("CLIENT_FILE_SEND"),
                                   ValueOf("FILE_NOT_FOUND")}) =>
        /\ ret.val.sent = <<>>
        /\ srv_local_max_data = ret.pre.lmd
        /\ MailboxAsBefore

\* A FILE_NOT_FOUND from a client that has an entry queued, on a connection
\* whose outbound signal the server has set before.
C12_Witness ==
    /\ IsStreamData
    /\ ret.arg = ValueOf("FILE_NOT_FOUND")
    /\ RowsOf(ret.pre.cmds, ret.id) # <<>>
    /\ ret.pre.lmd = ValueOf("SERVER_FILE_RECV")

C15_OutboundFileSentOnce ==
    /\ (IsHello /\ PreCmds = <<>> /\ Len(PreSend) = 1) =>
           /\ ret.val.resp = "SERVER_FILE_SEND"
           /\ ret.val.items = <<PreSend[1]>>
           /\ srv_local_max_data = ValueOf("SERVER_FILE_SEND")
           /\ \A i \in 1..Len(ret.val.sent) :
                  ret.val.sent[i].signal = ValueOf("SERVER_FILE_SEND")
           /\ sel_and_del_file_send(files_send, ret.id).filename = <<>>
    /\ (IsHello /\ PreSend = <<>>) => ret.val.resp # "SERVER_FILE_SEND"

\* Such a hello, the file's bytes sent.
C15_Witness ==
    /\ IsHello
    /\ PreCmds = <<>>
    /\ Len(PreSend) = 1
    /\ ret.val.resp = "SERVER_FILE_SEND"
    /\ ret.val.sent # <<>>

(***************************************************************************)
(* Properties of the client (SpecClient).                                  *)
(***************************************************************************)
IsClientEvent == ret.op = "client_event"

Kill == ValueOf("CLIENT_KILL")

IsStockSignal(v) ==
    \E i \in 1..Len(Actions) : Actions[i].cat = "stock" /\ Actions[i].value = v

\* The event told the client to run something: a stock signal, or CUSTOM
\* with at least one item.
ToldToRun ==
    /\ IsClientEvent
    /\ ret.pre.is_stream
    /\ CanDecode(ret.pre.data)
    /\ \/ IsStockSignal(ret.arg)
       \/ ret.arg = ValueOf("CUSTOM") /\ ServerData(ret.pre.data) # <<>>

\* The execution failed: a non-zero exit, or ipconfig on a platform that
\* stock_command does not know.
ExecutionFailed ==
    \/ ret.pre.env.exit # 0
    \/ ret.arg = ValueOf("IPCONFIG") /\ ret.pre.env.os \notin {"Windows", "Linux"}

\* C16: when a command the client is told to run, stock or custom, fails,
\* the handler does not fault and the failure goes to the server as the
\* payload of a CLIENT_RESPONSE.
C16_FailureBecomesResponse ==
    (ToldToRun /\ ExecutionFailed) =>
        /\ ret.exc = "none"
        /\ ret.val.sent # <<>>
        /\ \A i \in 1..Len(ret.val.sent) :
               ret.val.sent[i].signal = ValueOf("CLIENT_RESPONSE")
        /\ cl_local_max_data = ValueOf("CLIENT_RESPONSE")

\* The io the client does after it saw CLIENT_KILL.
IoAfterKill == SelectSeq(cl_log, LAMBDA e : e.op # "kill")

\* C17 as stated: once the client has seen CLIENT_KILL it executes no
\* command, writes no file and does no further i/o with the server: it
\* opens no connection and sends no message.
C17_NoIoAfterKill ==
    /\ (IsClientEvent /\ ret.arg = Kill) =>
           /\ ret.val.ran = <<>>
           /\ ret.val.sent = <<>>
           /\ cl_temp = ret.pre.temp
    /\ IoAfterKill = <<>>

\* C17 amended: in the event in which the client sees CLIENT_KILL it
\* executes no command, writes no file and sends no message, and it handles
\* no event and sends no hello afterwards; its only further i/o is one last
\* connection, closed at once with reason "terminate" and its id as code.
C17_KillThenOnlyTerminateClose ==
    /\ (IsClientEvent /\ ret.arg = Kill) =>
           /\ ret.val.ran = <<>>
           /\ ret.val.sent = <<>>
           /\ cl_temp = ret.pre.temp
           /\ cl_pc = "killed"
    /\ cl_log # <<>> =>
           \/ cl_pc = "killed" /\ IsClientEvent /\ ret.arg = Kill
           \/ cl_pc = "terminated" /\ ret.op = "perform_connect_kill"
    /\ cl_pc = "killed" => IoAfterKill = <<>>
    /\ cl_pc = "terminated" =>
           IoAfterKill =
               <<[op |-> "connect", code |-> ClientId, reason |-> ""],
                 [op |-> "close", code |-> ClientId, reason |-> "terminate"]>>

\* The client has seen the kill and closed its last connection.
C17_Witness ==
    /\ cl_pc = "terminated"
    /\ Len(cl_log) = 3

\* C18: the client is killed or terminated only after it has seen
\* CLIENT_KILL; after an event under any other signal, whatever the payload
\* and whatever became of the command or the file, it is connected and
\* awaiting the server, the end of its sleep can follow, and after that the
\* next hello.
C18_TerminatedOnlyByKill ==
    /\ cl_pc \in {"killed", "terminated"} =>
           cl_log # <<>> /\ cl_log[1].op = "kill"
    /\ (IsClientEvent /\ ret.arg # Kill) =>
           cl_pc = "connected" /\ ENABLED ClientSleepDone
    /\ cl_pc = "idle" => ENABLED ClientConnect

\* An event in which a stock command failed and left the handler by an
\* exception.
C18_Witness ==
    /\ IsClientEvent
    /\ ret.arg # Kill
    /\ ret.exc = "CalledProcessError"
    /\ cl_pc = "connected"

RECURSIVE Concat(_)
Concat(seqs) ==
    IF seqs = <<>> THEN <<>> ELSE Head(seqs) \o Concat(Tail(seqs))

SentData == [i \in 1..Len(ret.val.sent) |-> ret.val.sent[i].data]

\* An event under SERVER_FILE_RECV that names a file.
IsFileRequest ==
    /\ IsClientEvent
    /\ ret.pre.is_stream
    /\ ret.arg = ValueOf("SERVER_FILE_RECV")
    /\ CanDecode(ret.pre.data)
    /\ ServerData(ret.pre.data) # <<>>

IsChunking == ret.op \in {"read_loop", "response_loop"}

\* C20: for every payload, the empty one and the exact multiples of the cap
\* included, and every cap of at least 1, the loop ends (after no more than
\* len div cap + 1 messages), no message is longer than the cap, and the
\* messages joined in order are the payload.
C20_ChunksBoundedAndComplete ==
    IsChunking =>
        /\ Len(ret.val) <= (Len(ret.arg.data) \div ret.arg.m) + 1
        /\ \A i \in 1..Len(ret.val) : Len(ret.val[i]) <= ret.arg.m
        /\ Concat(ret.val) = ret.arg.data

\* A response of exactly two caps through the do-while: two full messages
\* and an empty one.
C20_Witness ==
    /\ ret.op = "response_loop"
    /\ ret.arg.m > 1
    /\ Len(ret.arg.data) = 2 * ret.arg.m
    /\ Len(ret.val) = 3

(***************************************************************************)
(* Properties of the client and the server together (SpecSystem).          *)
(***************************************************************************)
\* C14: when exactly one command, a stock one, is queued for the client at
\* its CLIENT_HELLO, respond_to_sdr answers SERVER_SEES_HELLO with that
\* command and the server sends it under its code; the client on receiving
\* it runs that stock command once, and no other, and replies with the
\* command's output under CLIENT_RESPONSE.
C14_StockCommandRoundTrip ==
    /\ (IsHello /\ Len(PreCmds) = 1 /\ IsStockText(PreCmds[1])) =>
           /\ ret.val.resp = "SERVER_SEES_HELLO"
           /\ ret.val.items = PreCmds
           /\ ret.val.sent = <<Msg(PyInt(PreCmds[1]).val, DELIMITER)>>
           /\ net.to_client # <<>>
           /\ net.to_client[Len(net.to_client)] = ret.val.sent[1]
    /\ (IsClientEvent /\ IsStockSignal(ret.arg)) =>
           /\ ret.exc = "none"
           /\ Len(ret.val.ran) = 1
           /\ ret.val.ran[1].kind = "stock"
           /\ ret.val.ran[1].line =
                  StockLine(int_to_enum(ret.arg), ret.pre.env.os)
           /\ ret.val.sent # <<>>
           /\ \A i \in 1..Len(ret.val.sent) :
                  ret.val.sent[i].signal = ValueOf("CLIENT_RESPONSE")
           /\ Concat(SentData) = Stdout(ret.val.ran[1].line)
           /\ \A i \in 1..Len(ret.val.sent) :
                  \E k \in 1..Len(net.to_server) :
                      net.to_server[k] = ret.val.sent[i]

(***************************************************************************)
(* Properties of the delimiter framing (SpecFrame).                        *)
(***************************************************************************)
\* C21: items that are not empty, hold no delimiter and have no white space
\* at either end, each sent with the delimiter after it, come out of the
\* client's split of the joined messages as the same sequence, also with
\* payloads of the delimiter alone before, between and after them.
C21_FramingRoundTrip ==
    ret.op = "frame" => ret.val = ret.arg.items

(***************************************************************************)
(* Properties of the idle client under the sweep (SpecLive).               *)
(***************************************************************************)
Registered == HasRecord(alive_clients, ClientId)

C23_StorageErrorIsNotEmptyQueue ==
    (IsHello /\ ret.pre.err # {}) =>
        /\ ret.exc = "none"
        /\ "cmds" \in ret.pre.err => cmd_pool = ret.pre.cmds
        /\ "send" \in ret.pre.err => files_send = ret.pre.send
        /\ "recv" \in ret.pre.err => files_recv = ret.pre.recv
        /\ "cmds" \in ret.pre.err =>
               /\ files_send = ret.pre.send
               /\ files_recv = ret.pre.recv
               /\ ret.val.resp \notin {"SERVER_FILE_SEND", "SERVER_FILE_RECV"}

C25_RecordOnlyOnHello ==
    (IsStreamData /\ ret.arg # ValueOf("CLIENT_HELLO")) =>
        alive_clients = ret.pre.alive

(***************************************************************************)
(* Further properties of the client (SpecClient).                          *)
(***************************************************************************)
\* C26: the client starts a stock command only in an event under a signal
\* of the stock range, and a free-form command only under CUSTOM; under
\* every other signal that is the value of a member it starts nothing.
C26_RunsOnlyUnderCommandSignals ==
    (IsClientEvent /\ ret.arg \in MemberValues) =>
        \A i \in 1..Len(ret.val.ran) :
            /\ ret.val.ran[i].kind = "stock" => IsStockSignal(ret.arg)
            /\ ret.val.ran[i].kind = "custom" => ret.arg = ValueOf("CUSTOM")

(***************************************************************************)
(* Further properties of the server's hello handling (Spec).               *)
(***************************************************************************)
IsCommandSignal(v) == v = ValueOf("CUSTOM") \/ IsStockSignal(v)

\* C27: whatever the operator queued, every message of a dispatched batch
\* goes out under CUSTOM or under a code of the stock range, and the
\* outbound signal field is left at such a value or as it was.
C27_DispatchOnlyCommandSignals ==
    (IsHello /\ ret.val.resp = "SERVER_SEES_HELLO") =>
        /\ \A i \in 1..Len(ret.val.sent) :
               IsCommandSignal(ret.val.sent[i].signal)
        /\ \/ srv_local_max_data = ret.pre.lmd
           \/ IsCommandSignal(srv_local_max_data)

\* C28: a CLIENT_HELLO answered with a queued outbound file does not make
\* the handler fault, whether or not the file can be opened.
C28_UnopenableFileNoFault ==
    (IsHello /\ ret.val.resp = "SERVER_FILE_SEND") => ret.exc = "none"

\* C29: a CLIENT_HELLO takes entries from no queue but the one it answers
\* with: commands queued for the client leave both file queues as they
\* were, an outbound file returned leaves the inbound queue as it was, a
\* queue that lost an entry is the queue of the response, and the entries
\* of the other clients stay where they are.
C29_OneKindDequeued ==
    IsHello =>
        /\ PreCmds # <<>> =>
               files_send = ret.pre.send /\ files_recv = ret.pre.recv
        /\ ret.val.resp = "SERVER_FILE_SEND" => files_recv = ret.pre.recv
        /\ cmd_pool # ret.pre.cmds => ret.val.resp = "SERVER_SEES_HELLO"
        /\ files_send # ret.pre.send => ret.val.resp = "SERVER_FILE_SEND"
        /\ files_recv # ret.pre.recv => ret.val.resp = "SERVER_FILE_RECV"
        /\ RowsNotOf(cmd_pool, ret.id) = RowsNotOf(ret.pre.cmds, ret.id)
        /\ RowsNotOf(files_send, ret.id) = RowsNotOf(ret.pre.send, ret.id)
        /\ RowsNotOf(files_recv, ret.id) = RowsNotOf(ret.pre.recv, ret.id)

(***************************************************************************)
(* Properties of a batch of commands on one connection (SpecBatch).        *)
(***************************************************************************)
\* The message the dispatch loop sends for the queued text cmd.
SentFor(cmd) ==
    IF IsStockText(cmd) THEN Msg(StockOf(cmd), DELIMITER)
    ELSE Msg(ValueOf("CUSTOM"), cmd \o DELIMITER)

\* The i-th process the client started is the one the send m asks for.
RanFor(m, r, os) ==
    IF m.signal = ValueOf("CUSTOM")
    THEN r.kind = "custom" /\ r.line \o DELIMITER = m.data
    ELSE r.kind = "stock" /\ r.line = StockLine(int_to_enum(m.signal), os)

\* C30: for a batch of two or more stock codes and free-form texts taken on
\* one CLIENT_HELLO the server writes the signal field once per item and
\* sends the item under it, and the client on every event it gets runs each
\* item sent exactly once, under the signal written for that item: none
\* under another item's signal, none skipped.
C30_EachItemUnderItsSignal ==
    /\ (IsHello /\ Len(PreCmds) >= 2) =>
           /\ Len(ret.val.sent) = Len(PreCmds)
           /\ \A i \in 1..Len(PreCmds) : ret.val.sent[i] = SentFor(PreCmds[i])
    /\ (IsClientEvent /\ ret.exc = "none") =>
           /\ Len(ret.val.ran) = Len(ret.pre.msgs)
           /\ \A i \in 1..Len(ret.pre.msgs) :
                  RanFor(ret.pre.msgs[i], ret.val.ran[i], ret.pre.env.os)

(***************************************************************************)
(* Properties of the life of one client (SpecSession).                     *)
(***************************************************************************)
\* The signals the client of this repository sets before it sends data.
ConformantSignals ==
    {ValueOf("CLIENT_HELLO"), ValueOf("CLIENT_RESPONSE"),
     ValueOf("CLIENT_FILE_SEND"), ValueOf("FILE_NOT_FOUND")}

\* The server has handled data of the client.
IsServerEvent == ret.op = "quic_event_received"

\* C31: to a client that sets no signal but CLIENT_HELLO, CLIENT_RESPONSE,
\* CLIENT_FILE_SEND and FILE_NOT_FOUND before it sends data the server
\* sends nothing under CLIENT_KILL and leaves its outbound signal field
\* off CLIENT_KILL, also for the data that follows a SERVER_FILE_RECV.
C31_NoKillForConformantClient ==
    (IsServerEvent /\ ret.arg \in ConformantSignals) =>
        /\ srv_local_max_data # Kill
        /\ \A i \in 1..Len(ret.val.sent) : ret.val.sent[i].signal # Kill

\* The client has met CLIENT_KILL.
SawKill == cl_pc \in {"killed", "terminated"}

PreWithRecord ==
    [ret.pre EXCEPT !.alive = insert_new_stream_id(@, ret.id, now).alive]

\* The hello of a client without a record hands off what the same hello
\* would have handed off had the record been there.
HandsOffAsRegistered(r) ==
    /\ ret.val.resp = r.resp
    /\ ret.val.items = r.items
    /\ cmd_pool = r.db.cmds
    /\ files_send = r.db.send
    /\ files_recv = r.db.recv

Queued(item) ==
    \E i \in 1..Len(cmd_pool) :
        cmd_pool[i].stream_id = Str(item[1]) /\ cmd_pool[i].cmd = item[2]

TimesReturned(item) ==
    Cardinality({i \in 1..Len(returned) : returned[i] = item})

\* C5: under every interleaving of enqueue_command with take_commands, each
\* enqueued command is either still queued and not returned, or no longer
\* queued and returned by exactly one take.
C5_AtMostOnceHandOff ==
    \A item \in enqueued :
        \/ Queued(item) /\ TimesReturned(item) = 0
        \/ ~Queued(item) /\ TimesReturned(item) = 1

=============================================================================
